---- MODULE Spec2Model ----
(***************************************************************************)
(* A model of pikee's document chunking service                            *)
(* (src/pikee/pipeline/services/chunker.py): the fixed-rule splitter it    *)
(* configures, the basic chunking mode and the LLM-driven boundary         *)
(* refinement loop, with the tag-grammar response parser.                  *)
(*                                                                         *)
(* Text is a sequence of one-character strings.  The outcome of a          *)
(* generation call is RAISE (the call raised) or Reply(body); the body of  *)
(* a resplit reply is a sequence of elements: free text,                   *)
(* <endline>..</endline>, <summary>..</summary>.                           *)
(***************************************************************************)
EXTENDS Integers, Sequences, FiniteSets, TLC

\* ------------------------------------------------------------------ bounds

\* Longest document of a basic-mode run.
MaxBasicLen == 6
\* Longest document of an LLM-mode run.
MaxLlmLen == 5
\* Bound on the generation calls of one chunk_document run.
MaxCalls == 12
\* Longest batch of chunk_documents.
MaxBatch == 3
\* Longest response handed to the parser alone, in elements.
MaxResponseLen == 4
\* Longest text handed to the parser alone.
MaxParseTextLen == 3

\* Longest chunk list of an extract_atoms_batch run.
MaxChunks == 3
\* Largest num_parallel of an AtomExtractor.
MaxParallel == 2
\* Largest max_atoms_per_chunk of an AtomExtractor.
MaxAtoms == 2
\* Longest extraction response handed to _parse_response alone, in characters.
MaxListLen == 5
\* Largest chunk_size and chunk_overlap a constructor is called with.
MaxSize == 3

\* ------------------------------------------------------------ text helpers

Alphabet == {"a", " ", "\n"}

Min(S) == CHOOSE x \in S : \A y \in S : x <= y
Max(S) == CHOOSE x \in S : \A y \in S : x >= y

\* Python's str.isspace on one character.
IsSpace(c) == c \in {" ", "\n"}

\* Python's str.strip(): leading and trailing whitespace removed.
Strip(s) ==
    LET keep == {i \in 1..Len(s) : ~IsSpace(s[i])}
    IN  IF keep = {} THEN <<>> ELSE SubSeq(s, Min(keep), Max(keep))

\* `not s or not s.strip()`.
IsBlank(s) == Strip(s) = <<>>

\* Python's s[n:] and s[:n] for n >= 0.
Drop(s, n) == IF n >= Len(s) THEN <<>> ELSE SubSeq(s, n + 1, Len(s))
Take(s, n) == IF n >= Len(s) THEN s ELSE SubSeq(s, 1, n)

\* Whether sub occurs in s at 0-based offset i.
OccursAt(s, sub, i) ==
    /\ i >= 0
    /\ i + Len(sub) <= Len(s)
    /\ SubSeq(s, i + 1, i + Len(sub)) = sub

\* Python's s.find(sub, start): the least offset >= start, or -1.
Find(s, sub, start) ==
    LET hits == {i \in start..Len(s) : OccursAt(s, sub, i)}
    IN  IF hits = {} THEN -1 ELSE Min(hits)

\* Python's sep.join(parts).
RECURSIVE Join(_, _)
Join(parts, sep) ==
    IF parts = <<>> THEN <<>>
    ELSE IF Len(parts) = 1 THEN parts[1]
    ELSE parts[1] \o sep \o Join(Tail(parts), sep)

\* re.split(re.escape(sep), s) for a non-empty sep: leftmost, non-overlapping.
RECURSIVE ReSplit(_, _)
ReSplit(s, sep) ==
    LET i == Find(s, sep, 0)
    IN  IF i = -1 THEN <<s>>
        ELSE <<Take(s, i)>> \o ReSplit(Drop(s, i + Len(sep)), sep)

\* list(s).
Chars(s) == [i \in 1..Len(s) |-> <<s[i]>>]

\* [x for x in parts if x != ""].
RECURSIVE NonEmpty(_)
NonEmpty(parts) ==
    IF parts = <<>> THEN <<>>
    ELSE IF parts[1] = <<>> THEN NonEmpty(Tail(parts))
    ELSE <<parts[1]>> \o NonEmpty(Tail(parts))

\* ------------------------------------------------- the fixed-rule splitter
\* RecursiveCharacterTextSplitter as DocumentChunker configures it:
\* keep_separator=False, add_start_index=True, strip_whitespace=True,
\* length_function=len, literal (escaped) separators.

\* DEFAULT_SEPARATORS restricted to the separators that can occur in a text
\* over Alphabet (the others never match, and are skipped by the search).
DEFAULT_SEPARATORS == << <<"\n", "\n">>, <<"\n">>, <<" ">>, <<>> >>

\* _split_text_with_regex(text, separator, keep_separator=False).
SplitWithRegex(text, separator) ==
    IF separator # <<>> THEN NonEmpty(ReSplit(text, separator))
    ELSE NonEmpty(Chars(text))

\* Variant: the pieces are joined without the separator between them.
JoinDocsBare(docs, separator) == Strip(Join(docs, <<>>))

\* Variant: the joined text is kept as it is (strip_whitespace off).
JoinDocsUnstripped(docs, separator) == Join(docs, separator)

\* TextSplitter._join_docs: the joined, stripped text; <<>> stands for None.
JoinDocs(docs, separator) == Strip(Join(docs, separator))

\* The inner while loop of _merge_splits: drop leading pieces of the current
\* window until it is within the overlap and the next piece fits.
RECURSIVE PopWhile(_, _, _, _, _, _)
PopWhile(current, total, dlen, seplen, cs, co) ==
    IF \/ total > co
       \/ /\ total + dlen + (IF Len(current) > 0 THEN seplen ELSE 0) > cs
          /\ total > 0
    THEN PopWhile(Tail(current),
                  total - (Len(current[1]) + (IF Len(current) > 1 THEN seplen ELSE 0)),
                  dlen, seplen, cs, co)
    ELSE [cur |-> current, total |-> total]

\* TextSplitter._merge_splits, from piece i on.
RECURSIVE MergeLoop(_, _, _, _, _, _, _, _)
MergeLoop(splits, i, separator, cs, co, docs, current, total) ==
    IF i > Len(splits)
    THEN LET doc == JoinDocs(current, separator)
         IN  IF doc # <<>> THEN Append(docs, doc) ELSE docs
    ELSE LET d == splits[i]
             seplen == Len(separator)
             flush == /\ total + Len(d) + (IF Len(current) > 0 THEN seplen ELSE 0) > cs
                      /\ Len(current) > 0
             doc == JoinDocs(current, separator)
             docs2 == IF flush /\ doc # <<>> THEN Append(docs, doc) ELSE docs
             popped == IF flush THEN PopWhile(current, total, Len(d), seplen, cs, co)
                       ELSE [cur |-> current, total |-> total]
             cur2 == Append(popped.cur, d)
             total2 == popped.total + Len(d) + (IF Len(cur2) > 1 THEN seplen ELSE 0)
         IN  MergeLoop(splits, i + 1, separator, cs, co, docs2, cur2, total2)

\* Variant: the pieces are never flushed, whatever their total length.
MergeSplitsWhole(splits, separator, cs, co) ==
    LET doc == JoinDocs(splits, separator)
    IN  IF doc # <<>> THEN <<doc>> ELSE <<>>

MergeSplits(splits, separator, cs, co) ==
    MergeLoop(splits, 1, separator, cs, co, <<>>, <<>>, 0)

\* The separator _split_text picks: the first of the list that is "" or
\* occurs in the text; the last one when none does.
PickSeparator(text, separators) ==
    LET hits == {i \in 1..Len(separators) :
                    separators[i] = <<>> \/ Find(text, separators[i], 0) # -1}
    IN  IF hits = {} THEN [sep |-> separators[Len(separators)], rest |-> <<>>]
        ELSE LET k == Min(hits)
             IN  [sep |-> separators[k],
                  rest |-> IF separators[k] = <<>> THEN <<>>
                           ELSE SubSeq(separators, k + 1, Len(separators))]

\* RecursiveCharacterTextSplitter._split_text and its loop over the pieces.
RECURSIVE SplitText(_, _, _, _)
RECURSIVE SplitLoop(_, _, _, _, _, _, _, _)
SplitLoop(splits, i, separator, rest, cs, co, good, final) ==
    IF i > Len(splits)
    THEN IF good # <<>> THEN final \o MergeSplits(good, separator, cs, co) ELSE final
    ELSE LET s == splits[i]
         IN  IF Len(s) < cs
             THEN SplitLoop(splits, i + 1, separator, rest, cs, co, Append(good, s), final)
             ELSE LET flushed == IF good # <<>>
                                 THEN final \o MergeSplits(good, separator, cs, co)
                                 ELSE final
                      more == IF rest = <<>> THEN <<s>> ELSE SplitText(s, rest, cs, co)
                  IN  SplitLoop(splits, i + 1, separator, rest, cs, co, <<>>, flushed \o more)

SplitText(text, separators, cs, co) ==
    LET pick == PickSeparator(text, separators)
    IN  SplitLoop(SplitWithRegex(text, pick.sep), 1, pick.sep, pick.rest, cs, co, <<>>, <<>>)

\* self._base_splitter.split_text(text).
split_text(text, cs, co) == SplitText(text, DEFAULT_SEPARATORS, cs, co)

\* ------------------------------------------------ generation responses

\* The outcome of a generate_content call: it raised, or returned a text.
RAISE == [raised |-> TRUE, body |-> <<>>]
Reply(body) == [raised |-> FALSE, body |-> body]

\* Elements of a response text.
FreeText == [tag |-> "text", body |-> <<>>]
EndlineTag(body) == [tag |-> "endline", body |-> body]
SummaryTag(body) == [tag |-> "summary", body |-> body]

Digits == {"0", "1", "2", "3", "4", "5", "6", "7", "8", "9"}

DigitVal(c) ==
    CASE c = "0" -> 0 [] c = "1" -> 1 [] c = "2" -> 2 [] c = "3" -> 3 [] c = "4" -> 4
      [] c = "5" -> 5 [] c = "6" -> 6 [] c = "7" -> 7 [] c = "8" -> 8 [] c = "9" -> 9

\* int() of a digit string.
RECURSIVE IntOf(_)
IntOf(body) ==
    IF body = <<>> THEN 0
    ELSE 10 * IntOf(SubSeq(body, 1, Len(body) - 1)) + DigitVal(body[Len(body)])

\* Whether <endline>body</endline> matches r"<endline>(\d+)</endline>".
IsEndlineMatch(e) ==
    /\ e.tag = "endline"
    /\ e.body # <<>>
    /\ \A i \in 1..Len(e.body) : e.body[i] \in Digits

\* re.findall(r"<summary>(.*?)</summary>", response, re.DOTALL).
RECURSIVE SummaryMatches(_)
SummaryMatches(response) ==
    IF response = <<>> THEN <<>>
    ELSE IF response[1].tag = "summary"
         THEN <<response[1].body>> \o SummaryMatches(Tail(response))
         ELSE SummaryMatches(Tail(response))

\* _parse_summary_response.
ParseSummaryResponse(response) == Strip(response)

\* Mutant: one summary block is enough.
ParseResplitOneSummary(response, original_text) ==
    LET ends == {i \in 1..Len(response) : IsEndlineMatch(response[i])}
        summary_matches == SummaryMatches(response)
        lines == ReSplit(original_text, <<"\n">>)
        reported == IntOf(response[Min(ends)].body)
        end_line_num == IF reported > Len(lines) THEN Len(lines) ELSE reported
        first_part == Join(Take(lines, end_line_num), <<"\n">>)
    IN  IF ends = {} \/ Len(summary_matches) < 1
        THEN [ok |-> FALSE]
        ELSE [ok |-> TRUE,
              first_part |-> first_part,
              first_summary |-> Strip(summary_matches[1]),
              second_summary |-> Strip(summary_matches[Len(summary_matches)]),
              split_position |-> Len(first_part)]

\* Mutant: a reported line number past the end is clamped one line short.
ParseResplitClampShort(response, original_text) ==
    LET ends == {i \in 1..Len(response) : IsEndlineMatch(response[i])}
        summary_matches == SummaryMatches(response)
        lines == ReSplit(original_text, <<"\n">>)
        reported == IntOf(response[Min(ends)].body)
        end_line_num == IF reported > Len(lines) THEN Len(lines) - 1 ELSE reported
        first_part == Join(Take(lines, end_line_num), <<"\n">>)
    IN  IF ends = {} \/ Len(summary_matches) < 2
        THEN [ok |-> FALSE]
        ELSE [ok |-> TRUE,
              first_part |-> first_part,
              first_summary |-> Strip(summary_matches[1]),
              second_summary |-> Strip(summary_matches[2]),
              split_position |-> Len(first_part)]

\* _parse_resplit_response: ok = FALSE stands for the ValueError.
ParseResplitResponse(response, original_text) ==
    LET ends == {i \in 1..Len(response) : IsEndlineMatch(response[i])}
        summary_matches == SummaryMatches(response)
        lines == ReSplit(original_text, <<"\n">>)
        reported == IntOf(response[Min(ends)].body)
        end_line_num == IF reported > Len(lines) THEN Len(lines) ELSE reported
        first_part == Join(Take(lines, end_line_num), <<"\n">>)
    IN  IF ends = {} \/ Len(summary_matches) < 2
        THEN [ok |-> FALSE]
        ELSE [ok |-> TRUE,
              first_part |-> first_part,
              first_summary |-> Strip(summary_matches[1]),
              second_summary |-> Strip(summary_matches[2]),
              split_position |-> Len(first_part)]

\* Variant: the first summary is produced without a generation call.
GenerateFirstChunkSummaryNoCall(text, cs, co, reply) ==
    [summary |-> IF reply.raised THEN <<>> ELSE ParseSummaryResponse(reply.body),
     called |-> FALSE, raised |-> FALSE]

\* _generate_first_chunk_summary: the summary, and whether it issued a call.
GenerateFirstChunkSummary(text, cs, co, reply) ==
    IF split_text(text, cs, co) = <<>> THEN [summary |-> <<>>, called |-> FALSE, raised |-> FALSE]
    ELSE [summary |-> IF reply.raised THEN <<>> ELSE ParseSummaryResponse(reply.body),
          called |-> TRUE, raised |-> FALSE]

\* Mutant: the final summary request has no except branch.
GenerateLastChunkSummaryNoExcept(prev_summary, reply) ==
    [summary |-> IF reply.raised THEN prev_summary ELSE ParseSummaryResponse(reply.body),
     called |-> TRUE, raised |-> reply.raised]

\* Variant: a failed final summary request leaves the summary empty.
GenerateLastChunkSummaryEmpty(prev_summary, reply) ==
    [summary |-> IF reply.raised THEN <<>> ELSE ParseSummaryResponse(reply.body),
     called |-> TRUE, raised |-> FALSE]

\* _generate_last_chunk_summary.
GenerateLastChunkSummary(prev_summary, reply) ==
    [summary |-> IF reply.raised THEN prev_summary ELSE ParseSummaryResponse(reply.body),
     called |-> TRUE, raised |-> FALSE]

\* Mutant: the except branch consumes the whole resplit text.
ResplitFallbackWhole(text, chunks, chunk_summary, response) ==
    LET text_to_resplit == Take(text, Len(chunks[1]) + Len(chunks[2]))
        result == IF response.raised THEN [ok |-> FALSE]
                  ELSE ParseResplitResponse(response.body, text_to_resplit)
    IN  IF result.ok
        THEN [new_chunk |-> result.first_part,
              new_summary |-> result.first_summary,
              next_summary |-> result.second_summary,
              dropped_len |-> result.split_position,
              raised |-> FALSE]
        ELSE [new_chunk |-> chunks[1],
              new_summary |-> chunk_summary,
              next_summary |-> chunk_summary,
              dropped_len |-> Len(text_to_resplit),
              raised |-> FALSE]

\* Variant: the two summaries of the response are taken in the wrong order.
ResplitSummariesSwapped(text, chunks, chunk_summary, response) ==
    LET text_to_resplit == Take(text, Len(chunks[1]) + Len(chunks[2]))
        result == IF response.raised THEN [ok |-> FALSE]
                  ELSE ParseResplitResponse(response.body, text_to_resplit)
    IN  IF result.ok
        THEN [new_chunk |-> result.first_part,
              new_summary |-> result.second_summary,
              next_summary |-> result.first_summary,
              dropped_len |-> result.split_position,
              raised |-> FALSE]
        ELSE [new_chunk |-> chunks[1],
              new_summary |-> chunk_summary,
              next_summary |-> chunk_summary,
              dropped_len |-> Len(chunks[1]),
              raised |-> FALSE]

\* Variant: the except branch reports that nothing was consumed.
ResplitFallbackStuck(text, chunks, chunk_summary, response) ==
    LET text_to_resplit == Take(text, Len(chunks[1]) + Len(chunks[2]))
        result == IF response.raised THEN [ok |-> FALSE]
                  ELSE ParseResplitResponse(response.body, text_to_resplit)
    IN  IF result.ok
        THEN [new_chunk |-> result.first_part,
              new_summary |-> result.first_summary,
              next_summary |-> result.second_summary,
              dropped_len |-> result.split_position,
              raised |-> FALSE]
        ELSE [new_chunk |-> chunks[1],
              new_summary |-> chunk_summary,
              next_summary |-> chunk_summary,
              dropped_len |-> 0,
              raised |-> FALSE]

\* _resplit_and_generate_summary: (new chunk, its summary, the next summary,
\* the consumed length); the except branch returns the first candidate.
ResplitAndGenerateSummary(text, chunks, chunk_summary, response) ==
    LET text_to_resplit == Take(text, Len(chunks[1]) + Len(chunks[2]))
        result == IF response.raised THEN [ok |-> FALSE]
                  ELSE ParseResplitResponse(response.body, text_to_resplit)
    IN  IF result.ok
        THEN [new_chunk |-> result.first_part,
              new_summary |-> result.first_summary,
              next_summary |-> result.second_summary,
              dropped_len |-> result.split_position,
              raised |-> FALSE]
        ELSE [new_chunk |-> chunks[1],
              new_summary |-> chunk_summary,
              next_summary |-> chunk_summary,
              dropped_len |-> Len(chunks[1]),
              raised |-> FALSE]

\* Mutant: the merge leaves the candidate list as it is.
MergeFirstTwoKept(segs) == segs

\* Variant: the merge drops the candidates after the second.
MergeFirstTwoOnly(segs) == <<segs[1] \o segs[2]>>

\* Variant: the merge is applied a second time when three or more candidates
\* were left.
MergeTwice(segs) ==
    IF Len(segs) >= 3 THEN <<segs[1] \o segs[2] \o segs[3]>> \o SubSeq(segs, 4, Len(segs))
    ELSE <<segs[1] \o segs[2]>>

\* The degenerate-merge path: the first two candidates become one.
MergeFirstTwo(segs) ==
    <<segs[1] \o segs[2]>> \o SubSeq(segs, 3, Len(segs))

\* Mutant: the index is not incremented after a chunk was added.
NextChunkIndexStuck(index) == index

\* chunk_index += 1 after a chunk was added.
NextChunkIndex(index) == index + 1

\* Mutant: an empty document is rejected with a ValueError.
EmptyDocumentRaises == [chunks |-> <<>>, raised |-> TRUE]

\* chunk_document on an empty or whitespace-only document: return [].
EmptyDocumentResult == [chunks |-> <<>>, raised |-> FALSE]

\* ------------------------------------------------------------------ chunks

\* Mutant: char_count counts the stripped content.
NewChunkStrippedCount(document_id, content, summary, index, start_index, llm) ==
    [document_id |-> document_id,
     content |-> content,
     summary |-> summary,
     index |-> index,
     char_count |-> Len(Strip(content)),
     start_index |-> start_index,
     end_index |-> start_index + Len(content),
     has_llm_summary |-> llm]

\* Chunk(...) as both modes build it, with Chunk.__post_init__ applied.
NewChunk(document_id, content, summary, index, start_index, llm) ==
    LET given == Len(content)
    IN  [document_id |-> document_id,
         content |-> content,
         summary |-> summary,
         index |-> index,
         char_count |-> IF given = 0 /\ content # <<>> THEN Len(content) ELSE given,
         start_index |-> start_index,
         end_index |-> start_index + Len(content),
         has_llm_summary |-> llm]

\* TextSplitter.create_documents with add_start_index: each segment with the
\* offset text.find gives it, searching from the previous one.
RECURSIVE StartIndexes(_, _, _, _, _, _)
StartIndexes(text, segs, i, index, previous_chunk_len, co) ==
    IF i > Len(segs) THEN <<>>
    ELSE LET offset == index + previous_chunk_len - co
             found == Find(text, segs[i], IF offset > 0 THEN offset ELSE 0)
         IN  <<found>> \o StartIndexes(text, segs, i + 1, found, Len(segs[i]), co)

\* _chunk_basic, by a chunker built with the given separators.
ChunkBasicWith(document_id, content, separators, cs, co) ==
    LET text == Strip(content)
        segs == SplitText(text, separators, cs, co)
        starts == StartIndexes(text, segs, 1, 0, 0, co)
    IN  [idx \in 1..Len(segs) |->
            NewChunk(document_id, segs[idx], <<>>, idx - 1, starts[idx], FALSE)]

\* _chunk_basic.
ChunkBasic(document_id, content, cs, co) ==
    ChunkBasicWith(document_id, content, DEFAULT_SEPARATORS, cs, co)

\* ---------------------------------------------------------- construction

\* DEFAULT_SEPARATORS in full.  A character outside ASCII is written as its
\* code point: U+3002 is the ideographic full stop, U+FF01, U+FF1F, U+FF1B
\* and U+FF0C the fullwidth ! ? ; and comma.
AllDefaultSeparators ==
    << <<"\n", "\n">>, <<"\n">>, <<"U+3002">>, <<".", " ">>, <<"U+FF01">>, <<"!", " ">>,
       <<"U+FF1F">>, <<"?", " ">>, <<"U+FF1B">>, <<";", " ">>, <<"U+FF0C">>, <<",", " ">>,
       <<" ">>, <<>> >>

\* An Optional[int] argument: left out, or given.
None == [given |-> FALSE, value |-> 0]
Given(value) == [given |-> TRUE, value |-> value]

\* `argument or default`: None and 0 are falsy.
OrDefault(argument, default) ==
    IF argument.given /\ argument.value # 0 THEN argument.value ELSE default

\* `separators or DEFAULT_SEPARATORS`: None and the empty list, both <<>>
\* here, are falsy.
SeparatorsOrDefault(separators) ==
    IF separators = <<>> THEN AllDefaultSeparators ELSE separators

\* Whether RecursiveCharacterTextSplitter(chunk_size, chunk_overlap, ...)
\* raises ValueError: it does for an overlap larger than the chunk size.
SplitterRejects(cs, co) == co > cs

\* DocumentChunker.__init__: the fields it sets, and whether it raised.
NewDocumentChunker(request) ==
    LET cs == OrDefault(request.chunk_size, request.settings.chunk_size)
        co == OrDefault(request.chunk_overlap, request.settings.chunk_overlap)
    IN  [chunk_size |-> cs,
         chunk_overlap |-> co,
         separators |-> SeparatorsOrDefault(request.separators),
         enable_llm |-> request.enable_llm,
         raised |-> (request.enable_llm /\ ~request.llm_client) \/ SplitterRejects(cs, co)]

\* SimpleChunker.__init__: the fields it sets, and whether it raised.
NewSimpleChunker(request) ==
    [chunk_size |-> request.chunk_size.value,
     chunk_overlap |-> request.chunk_overlap.value,
     separators |-> SeparatorsOrDefault(request.separators),
     enable_llm |-> FALSE,
     raised |-> SplitterRejects(request.chunk_size.value, request.chunk_overlap.value)]

\* ------------------------------------------ the extraction response parser
\* AtomExtractor._parse_response over response texts made of the characters
\* [ ] { } : , " digits, whitespace and letters: json.loads restricted to
\* arrays, objects, strings without escapes and unsigned integers.  A parsed
\* value is a record: t is "str", "num", "arr" or "obj", v the string's
\* characters, the number's digits, the array's elements or the object's
\* members (records of a key k and a value v).

NoValue == [t |-> "none", v |-> <<>>]
JsonFail == [ok |-> FALSE, val |-> NoValue, next |-> 0]

\* The first position from i on that holds no JSON whitespace.
SkipWs(s, i) ==
    LET stops == {j \in i..Len(s) : ~IsSpace(s[j])}
    IN  IF stops = {} THEN Len(s) + 1 ELSE Min(stops)

\* The end of the run of digits that starts at i.
DigitsEnd(s, i) ==
    LET stops == {j \in i..Len(s) : s[j] \notin Digits}
    IN  IF stops = {} THEN Len(s) ELSE Min(stops) - 1

\* The character that closes an array or an object.
Closer(t) == IF t = "arr" THEN "]" ELSE "}"

\* The JSON decoder's scan of a string literal at position i (1-based).
ParseString(s, i) ==
    IF i > Len(s) THEN JsonFail
    ELSE IF s[i] # "\"" THEN JsonFail
    ELSE LET closes == {j \in (i + 1)..Len(s) : s[j] = "\""}
         IN  IF closes = {} THEN JsonFail
             ELSE LET j == Min(closes)
                      body == SubSeq(s, i + 1, j - 1)
                  IN  IF \E k \in 1..Len(body) : body[k] = "\n" THEN JsonFail
                      ELSE [ok |-> TRUE, val |-> [t |-> "str", v |-> body], next |-> j + 1]

\* The position of a member's value, given the scan of its key: after the
\* colon that follows the key; beyond the text when there is no key or colon.
MemberValueAt(s, key) ==
    IF ~key.ok THEN Len(s) + 1
    ELSE IF SkipWs(s, key.next) > Len(s) THEN Len(s) + 1
    ELSE IF s[SkipWs(s, key.next)] # ":" THEN Len(s) + 1
    ELSE SkipWs(s, SkipWs(s, key.next) + 1)

\* The JSON decoder's scan of one value at position i (1-based): the value
\* and the position after it, or a failure.
RECURSIVE ParseValue(_, _)
RECURSIVE ParseItems(_, _, _, _)
ParseValue(s, i) ==
    IF i > Len(s) THEN JsonFail
    ELSE IF s[i] = "\""
    THEN ParseString(s, i)
    ELSE IF s[i] = "0"
    THEN [ok |-> TRUE, val |-> [t |-> "num", v |-> <<"0">>], next |-> i + 1]
    ELSE IF s[i] \in Digits
    THEN LET e == DigitsEnd(s, i)
         IN  [ok |-> TRUE, val |-> [t |-> "num", v |-> SubSeq(s, i, e)], next |-> e + 1]
    ELSE IF s[i] \in {"[", "{"}
    THEN LET k == SkipWs(s, i + 1)
             t == IF s[i] = "[" THEN "arr" ELSE "obj"
         IN  IF k <= Len(s) /\ s[k] = Closer(t)
             THEN [ok |-> TRUE, val |-> [t |-> t, v |-> <<>>], next |-> k + 1]
             ELSE ParseItems(s, k, <<>>, t)
    ELSE JsonFail

\* What follows an element at position k: a comma and the next element, the
\* closing bracket or brace, or a failure.
ItemsAfter(s, acc, t, element, k) ==
    IF k > Len(s) THEN JsonFail
    ELSE IF s[k] = ","
    THEN ParseItems(s, SkipWs(s, k + 1), Append(acc, element), t)
    ELSE IF s[k] = Closer(t)
    THEN [ok |-> TRUE, val |-> [t |-> t, v |-> Append(acc, element)], next |-> k + 1]
    ELSE JsonFail

\* An element that was scanned: the value of an array, the key and the
\* value of an object's member.
ElementAfter(s, acc, t, key, item) ==
    IF ~item.ok THEN JsonFail
    ELSE ItemsAfter(s, acc, t,
                    IF t = "arr" THEN item.val ELSE [k |-> key.val.v, v |-> item.val],
                    SkipWs(s, item.next))

\* The elements of an array from position i on up to its closing bracket,
\* or the members of an object (records of a key k and a value v) up to its
\* closing brace.
ParseItems(s, i, acc, t) ==
    ElementAfter(s, acc, t, ParseString(s, i),
                 ParseValue(s, IF t = "arr" THEN i ELSE MemberValueAt(s, ParseString(s, i))))

\* json.loads(s): ok = FALSE stands for json.JSONDecodeError.
JsonLoads(s) ==
    LET item == ParseValue(s, SkipWs(s, 1))
    IN  IF item.ok /\ SkipWs(s, item.next) > Len(s)
        THEN [ok |-> TRUE, val |-> item.val]
        ELSE [ok |-> FALSE, val |-> NoValue]

\* bool(q) of a parsed value.
Truthy(val) ==
    IF val.t = "num" THEN val.v # <<"0">> ELSE val.v # <<>>

\* repr(q) and str(q) of a parsed value.
RECURSIVE Repr(_)
RECURSIVE ReprItems(_)
RECURSIVE ReprMembers(_)
Repr(val) ==
    IF val.t = "str" THEN <<"'">> \o val.v \o <<"'">>
    ELSE IF val.t = "num" THEN val.v
    ELSE IF val.t = "obj" THEN <<"{">> \o ReprMembers(val.v) \o <<"}">>
    ELSE <<"[">> \o ReprItems(val.v) \o <<"]">>

ReprMembers(members) ==
    IF members = <<>> THEN <<>>
    ELSE LET first == <<"'">> \o members[1].k \o <<"'", ":", " ">> \o Repr(members[1].v)
         IN  IF Len(members) = 1 THEN first
             ELSE first \o <<",", " ">> \o ReprMembers(Tail(members))

ReprItems(items) ==
    IF items = <<>> THEN <<>>
    ELSE IF Len(items) = 1 THEN Repr(items[1])
    ELSE Repr(items[1]) \o <<",", " ">> \o ReprItems(Tail(items))

Str(val) == IF val.t = "str" THEN val.v ELSE Repr(val)

\* [str(q) for q in questions if q].
RECURSIVE Questions(_)
Questions(items) ==
    IF items = <<>> THEN <<>>
    ELSE IF Truthy(items[1]) THEN <<Str(items[1])>> \o Questions(Tail(items))
    ELSE Questions(Tail(items))

\* re.search(r"\[.*?\]", response, re.DOTALL): from the first "[" to the
\* nearest "]" after it; found = FALSE when there is no match.
BracketSearch(response) ==
    LET opens == {i \in 1..Len(response) : response[i] = "["}
        closes == {j \in 1..Len(response) : j > Min(opens) /\ response[j] = "]"}
    IN  IF opens = {} THEN [found |-> FALSE, group |-> <<>>]
        ELSE IF closes = {} THEN [found |-> FALSE, group |-> <<>>]
        ELSE [found |-> TRUE, group |-> SubSeq(response, Min(opens), Min(closes))]

ParseFailure == [ok |-> FALSE, questions |-> <<>>]

\* Variant: the bracket search also runs when the response decodes to
\* something that is not a list.
ParseResponseRecoverAlways(response) ==
    LET direct == JsonLoads(Strip(response))
        json_match == BracketSearch(response)
        recovered == JsonLoads(json_match.group)
    IN  IF direct.ok /\ direct.val.t = "arr"
        THEN [ok |-> TRUE, questions |-> Questions(direct.val.v)]
        ELSE IF json_match.found /\ recovered.ok
             THEN [ok |-> TRUE, questions |-> Questions(recovered.val.v)]
             ELSE ParseFailure

\* AtomExtractor._parse_response: ok = FALSE stands for the ValueError.
ParseResponse(response) ==
    LET direct == JsonLoads(Strip(response))
        json_match == BracketSearch(response)
        recovered == JsonLoads(json_match.group)
    IN  IF direct.ok
        THEN IF direct.val.t = "arr"
             THEN [ok |-> TRUE, questions |-> Questions(direct.val.v)]
             ELSE ParseFailure
        ELSE IF json_match.found /\ recovered.ok
             THEN [ok |-> TRUE, questions |-> Questions(recovered.val.v)]
             ELSE ParseFailure


\* ----------------------------------------------------------- atom extraction

\* Mutant: the question list is never cut to the cap.
TruncatedNever(questions, cap) == questions

\* Mutant: the cut keeps the last questions instead of the first.
TruncatedTail(questions, cap) ==
    IF Len(questions) > cap THEN Drop(questions, Len(questions) - cap) ELSE questions

\* extract_atoms: questions[: self.max_atoms_per_chunk] when the list is longer.
Truncated(questions, cap) ==
    IF Len(questions) > cap THEN Take(questions, cap) ELSE questions

\* Variant: every atom carries the metadata of the batch's first document.
NewAtomSharedMetadata(chunk, question) ==
    [chunk_id |-> chunk.id,
     question |-> Strip(question),
     answer |-> <<>>,
     source |-> "S",
     title |-> "T",
     document_id |-> 1]

\* Atom(chunk_id=..., question=question.strip(), answer="", metadata={...}).
NewAtom(chunk, question) ==
    [chunk_id |-> chunk.id,
     question |-> Strip(question),
     answer |-> <<>>,
     source |-> chunk.source,
     title |-> chunk.title,
     document_id |-> chunk.document_id]

\* extract_atoms: the loop that builds an Atom for each question that is not
\* whitespace-only.
RECURSIVE AtomsOf(_, _)
AtomsOf(chunk, questions) ==
    IF questions = <<>> THEN <<>>
    ELSE IF Strip(questions[1]) # <<>>
         THEN <<NewAtom(chunk, questions[1])>> \o AtomsOf(chunk, Tail(questions))
         ELSE AtomsOf(chunk, Tail(questions))

\* Mutant: the content check is missing, every chunk is sent for generation.
NeedsGenerationAlways(chunk) == TRUE

\* extract_atoms' first check: a chunk with empty or whitespace-only content
\* is skipped.
NeedsGeneration(chunk) == ~IsBlank(chunk.content)

\* Mutant: extract_atoms has no except branch.
ExtractAtomsNoExcept(chunk, cap, reply) ==
    LET parsed == IF reply.raised THEN ParseFailure ELSE ParseResponse(reply.body)
    IN  IF ~NeedsGeneration(chunk)
        THEN [atoms |-> <<>>, called |-> FALSE, parsed |-> ParseFailure,
              failed |-> FALSE, raised |-> FALSE]
        ELSE IF ~parsed.ok
        THEN [atoms |-> <<>>, called |-> TRUE, parsed |-> parsed,
              failed |-> TRUE, raised |-> TRUE]
        ELSE [atoms |-> AtomsOf(chunk, Truncated(parsed.questions, cap)),
              called |-> TRUE, parsed |-> parsed, failed |-> FALSE, raised |-> FALSE]

\* extract_atoms(chunk) when the generation call, if one is issued, ends as
\* reply: the atoms returned, whether a call was issued, what
\* _parse_response gave, whether the extraction failed (call raised or
\* response unparseable), whether extract_atoms itself raised.
ExtractAtoms(chunk, cap, reply) ==
    LET parsed == IF reply.raised THEN ParseFailure ELSE ParseResponse(reply.body)
    IN  IF ~NeedsGeneration(chunk)
        THEN [atoms |-> <<>>, called |-> FALSE, parsed |-> ParseFailure,
              failed |-> FALSE, raised |-> FALSE]
        ELSE IF ~parsed.ok
        THEN [atoms |-> <<>>, called |-> TRUE, parsed |-> parsed,
              failed |-> TRUE, raised |-> FALSE]
        ELSE [atoms |-> AtomsOf(chunk, Truncated(parsed.questions, cap)),
              called |-> TRUE, parsed |-> parsed, failed |-> FALSE, raised |-> FALSE]

\* Mutant: the batch keeps only the atoms of the chunk it handled last.
ExtendedOverwrite(all, atoms) == atoms

\* Mutant: the batch adds a chunk's atoms twice.
ExtendedTwice(all, atoms) == all \o atoms \o atoms

\* all_atoms.extend(atoms).
Extended(all, atoms) == all \o atoms

\* Mutant: the pool starts a task whatever the number of busy workers.
PoolUnbounded(busy, max_workers) == TRUE

\* ThreadPoolExecutor(max_workers=self.num_parallel): a queued task starts
\* only on a worker that is not busy.
PoolHasIdleWorker(busy, max_workers) == busy < max_workers

\* Mutant: the single-thread loop walks the chunks from the last to the first.
IterationOrderReversed(n) == [k \in 1..n |-> n + 1 - k]

\* _single_thread_extract's `for chunk in iterator`: the k-th iteration
\* handles the k-th chunk.
IterationOrder(n) == [k \in 1..n |-> k]

\* What _single_thread_extract returns for chunks whose calls end as replies:
\* each chunk's atoms, in chunk order.
RECURSIVE SingleThreadResult(_, _, _)
SingleThreadResult(chunk_list, replies, cap) ==
    IF chunk_list = <<>> THEN <<>>
    ELSE ExtractAtoms(chunk_list[1], cap, replies[1]).atoms
         \o SingleThreadResult(Tail(chunk_list), Tail(replies), cap)


\* ------------------------------------------------------------ input sets

\* (chunk_size, chunk_overlap) pairs the splitter's constructor accepts.
Configs == {<<2, 0>>, <<2, 1>>, <<3, 1>>}

Texts(n) == UNION {[1..k -> Alphabet] : k \in 0..n}

\* Documents of the batches chunk_documents is run on.
BatchDocs == {<<" ", "\n">>, <<"a", " ", "a">>}
Batches == UNION {[1..k -> BatchDocs] : k \in 2..MaxBatch}

\* Replies to a first-chunk or final summary request.
SummaryReplies == {RAISE, Reply(<<" ", "s">>), Reply(<<"t">>)}

\* A resplit reply of the wire grammar, with free text before the payload.
Wire(n, s1, s2) ==
    Reply(<<FreeText, EndlineTag(n), SummaryTag(s1), SummaryTag(s2)>>)

\* Replies to a resplit request.
ResplitReplies ==
    {RAISE,
     Wire(<<"0">>, <<"p">>, <<"q">>),
     Wire(<<"1">>, <<"p">>, <<"q", " ">>),
     Wire(<<"2">>, <<"p">>, <<"q">>),
     Wire(<<"9">>, <<"p">>, <<"q">>),
     Reply(<<FreeText, SummaryTag(<<"p">>), SummaryTag(<<"q">>)>>),
     Reply(<<EndlineTag(<<"1">>), SummaryTag(<<"p">>)>>),
     Reply(<<EndlineTag(<<"x">>), SummaryTag(<<"p">>), SummaryTag(<<"q">>)>>),
     Reply(<<EndlineTag(<<"1">>), EndlineTag(<<"2">>), SummaryTag(<<"p">>), SummaryTag(<<"q">>)>>)}

\* Characters of the extraction responses: the JSON punctuation, a digit, a
\* letter and a blank.
JsonAlphabet == {"[", "]", ",", "\"", "q", "1", " "}

\* A JSON string literal.
Quoted(body) == <<"\"">> \o body \o <<"\"">>

\* 'x: ["q", "r"]': free text, then a JSON array of two strings.
TextThenArray ==
    <<"x", ":", " ", "[">> \o Quoted(<<"q">>) \o <<",", " ">> \o Quoted(<<"r">>) \o <<"]">>

\* 'x: ["q[1]", "r"]': the same, the first string holding brackets.
TextThenBracketString ==
    <<"x", ":", " ", "[">> \o Quoted(<<"q", "[", "1", "]">>) \o <<",", " ">>
        \o Quoted(<<"r">>) \o <<"]">>

\* '[1, "q"]': an array with an element that is not a string.
ArrayWithNumber == <<"[", "1", ",", " ">> \o Quoted(<<"q">>) \o <<"]">>

\* '{"q": ["q"]}': an object whose member holds the array.
ObjectWithArray ==
    <<"{">> \o Quoted(<<"q">>) \o <<":", " ", "[">> \o Quoted(<<"q">>) \o <<"]", "}">>

\* Responses handed to _parse_response alone.
ListResponses ==
    UNION {[1..k -> JsonAlphabet] : k \in 0..MaxListLen}
        \cup {TextThenArray, TextThenBracketString, ArrayWithNumber, ObjectWithArray}

\* Outcomes of the generation call of extract_atoms: it raised; three
\* questions; free text around one question; no JSON at all; a blank
\* question before a padded one.
ExtractionReplies ==
    {RAISE,
     Reply(<<"[">> \o Quoted(<<"q">>) \o <<",">> \o Quoted(<<"r">>) \o <<",">>
               \o Quoted(<<"s">>) \o <<"]">>),
     Reply(<<"x", " ", "[">> \o Quoted(<<"q">>) \o <<"]", " ", "x">>),
     Reply(<<"q">>),
     Reply(<<"[">> \o Quoted(<<" ">>) \o <<",">> \o Quoted(<<"q", " ">>) \o <<"]">>)}

\* Content and metadata of the chunks handed to the extractor: a blank
\* chunk and a chunk with content, of two documents.
ChunkKinds ==
    {[content |-> <<" ">>, document_id |-> 1, title |-> "T", source |-> "S"],
     [content |-> <<"a", " ">>, document_id |-> 2, title |-> "", source |-> ""]}

\* A chunk with content of the first document, whose title and source are
\* set.
TitledChunk ==
    [content |-> <<"a">>, document_id |-> 1, title |-> "T", source |-> "S"]

\* Lists that put chunks with content of two documents side by side.
MixedBatches ==
    {<<TitledChunk, k>> : k \in ChunkKinds} \cup {<<k, TitledChunk>> : k \in ChunkKinds}

ChunkBatches == UNION {[1..k -> ChunkKinds] : k \in 0..MaxChunks} \cup MixedBatches

\* The chunk at a position of the input list; Chunk.id is generated, no two
\* chunks share one.
InputChunk(i, kind) ==
    [id |-> i, content |-> kind.content, document_id |-> kind.document_id,
     title |-> kind.title, source |-> kind.source]

\* The settings a DocumentChunker is built from: chunk_size is positive
\* and large, chunk_overlap is not negative.
SettingsValues ==
    {[chunk_size |-> 9, chunk_overlap |-> 0], [chunk_size |-> 9, chunk_overlap |-> 1]}

\* The chunk_size and chunk_overlap arguments of DocumentChunker.
OptionalSizes == {None} \cup {Given(v) : v \in 0..MaxSize}

\* The separators argument: left out, or the one sentence separator.
SeparatorArguments == {<<>>, << <<".", " ">> >>}

\* The constructor calls: DocumentChunker(settings, chunk_size, chunk_overlap,
\* separators, enable_llm=..., llm_client=...) and SimpleChunker(chunk_size,
\* chunk_overlap, separators).
Requests ==
    {[class |-> "DocumentChunker", chunk_size |-> cs, chunk_overlap |-> co,
      separators |-> seps, enable_llm |-> llm, llm_client |-> client, settings |-> st] :
        cs \in OptionalSizes, co \in OptionalSizes, seps \in SeparatorArguments,
        llm \in BOOLEAN, client \in BOOLEAN, st \in SettingsValues}
    \cup
    {[class |-> "SimpleChunker", chunk_size |-> Given(cs), chunk_overlap |-> Given(co),
      separators |-> seps, enable_llm |-> FALSE, llm_client |-> FALSE,
      settings |-> [chunk_size |-> 0, chunk_overlap |-> 0]] :
        cs \in 1..MaxSize, co \in 0..MaxSize, seps \in SeparatorArguments}

\* "A. B. C."
ThreeSentences == <<"A", ".", " ", "B", ".", " ", "C", ".">>

\* The one-sentence document of test_chunk_document_single_sentence, five
\* ideographs and an ideographic full stop.
SingleSentence == <<"U+8FD9", "U+662F", "U+4E00", "U+53E5", "U+8BDD", "U+3002">>

\* The documents a freshly built chunker is called with.
ScenarioDocuments == {ThreeSentences, SingleSentence, <<" ">>}

\* ------------------------------------------------------------------- state

VARIABLES
    chunk_size,     \* self.chunk_size
    chunk_overlap,  \* self.chunk_overlap
    enable_llm,     \* self.enable_llm
    documents,      \* the documents chunk_documents is called with
    doc_i,          \* the document the loop of chunk_documents is at (1-based)
    all_chunks,     \* chunk_documents' all_chunks
    pc,             \* where the run is: idle, start, loop, done, finished
                    \* (extractor: ready, single, pool, returned)
    text,           \* _chunk_with_llm: the remaining text
    text_chunks,    \* _chunk_with_llm: the candidate segments
    chunk_summary,  \* _chunk_with_llm: the running summary
    chunk_index,    \* _chunk_with_llm: the next chunk index
    position,       \* _chunk_with_llm: the cursor
    chunks,         \* the chunk list chunk_document builds and returns
    raised,         \* whether chunk_document raised instead of returning
    calls,          \* generate_content calls issued by the current chunk_document
    failed,         \* the request kinds whose call failed in the current chunk_document
    merges,         \* degenerate merges taken by the current chunk_document
    last,           \* the last step taken, with the values it started from
    parse_in,       \* a call of _parse_resplit_response: (response, original_text)
    parse_out,      \* what that call returned
    num_parallel,         \* AtomExtractor: self.num_parallel
    max_atoms_per_chunk,  \* AtomExtractor: self.max_atoms_per_chunk
    in_chunks,      \* the chunks extract_atoms_batch is called with
    tasks,          \* per chunk: where its extract_atoms call is, and its outcome
    all_atoms,      \* extract_atoms_batch's all_atoms
    started,        \* the chunk positions, in the order their generation calls started
    list_in,        \* a call of AtomExtractor._parse_response: the response
    list_out,       \* what that call returned
    requested,      \* the arguments a chunker's constructor is called with
    runs            \* chunk_document calls in progress side by side: each one's locals

vars == <<chunk_size, chunk_overlap, enable_llm, documents, doc_i, all_chunks, pc,
          text, text_chunks, chunk_summary, chunk_index, position, chunks,
          raised, calls, failed, merges, last, parse_in, parse_out,
          num_parallel, max_atoms_per_chunk, in_chunks, tasks, all_atoms, started,
          list_in, list_out, requested, runs>>

\* The constructor call and the calls running side by side.
aside == <<requested, runs>>

\* The variables of the atom extractor.
extractor == <<num_parallel, max_atoms_per_chunk, in_chunks, tasks, all_atoms, started,
               list_in, list_out>>

config == <<chunk_size, chunk_overlap, enable_llm, documents>>

document == documents[doc_i]

NoStep == [kind |-> "none", reply |-> RAISE, text |-> <<>>, text_chunks |-> <<>>,
           chunk_summary |-> <<>>, position |-> 0, chunk_index |-> 0]

\* What a step records: its kind, the reply it got, and the values it read.
Step(kind, reply) ==
    [kind |-> kind, reply |-> reply, text |-> text, text_chunks |-> text_chunks,
     chunk_summary |-> chunk_summary, position |-> position, chunk_index |-> chunk_index]

NoParse == [ok |-> FALSE]

\* No constructor call.
NoRequest ==
    [class |-> "none", chunk_size |-> None, chunk_overlap |-> None, separators |-> <<>>,
     enable_llm |-> FALSE, llm_client |-> FALSE,
     settings |-> [chunk_size |-> 0, chunk_overlap |-> 0]]

\* An object that is constructed, and no calls side by side.
Constructed ==
    /\ requested = NoRequest
    /\ runs = <<>>

\* The extractor before extract_atoms_batch is called.
ExtractorIdle ==
    /\ in_chunks = <<>>
    /\ tasks = <<>>
    /\ all_atoms = <<>>
    /\ started = <<>>
    /\ list_in = <<>>
    /\ list_out = ParseFailure

\* The state before chunk_documents is called.
Idle ==
    /\ doc_i = 1
    /\ all_chunks = <<>>
    /\ text = <<>>
    /\ text_chunks = <<>>
    /\ chunk_summary = <<>>
    /\ chunk_index = 0
    /\ position = 0
    /\ chunks = <<>>
    /\ raised = FALSE
    /\ calls = 0
    /\ failed = {}
    /\ merges = 0
    /\ last = NoStep

Init ==
    /\ \E c \in Configs : chunk_size = c[1] /\ chunk_overlap = c[2]
    /\ enable_llm \in BOOLEAN
    /\ documents = <<>>
    /\ pc = "idle"
    /\ Idle
    /\ parse_in = <<>>
    /\ parse_out = NoParse
    /\ num_parallel = 1
    /\ max_atoms_per_chunk = 1
    /\ ExtractorIdle
    /\ Constructed

\* The batches a chunker is called with: one document, or a short batch.
Inputs ==
    {<<d>> : d \in Texts(IF enable_llm THEN MaxLlmLen ELSE MaxBasicLen)} \cup Batches

\* chunk_documents(documents) is called (chunk_document(d) is the batch <<d>>).
ChunkDocuments ==
    /\ pc = "idle"
    /\ documents' \in Inputs
    /\ pc' = "start"
    /\ UNCHANGED <<chunk_size, chunk_overlap, enable_llm, doc_i, all_chunks, text,
                   text_chunks, chunk_summary, chunk_index, position, chunks, raised,
                   calls, failed, merges, last, parse_in, parse_out, extractor, aside>>

\* chunk_document on an empty or whitespace-only document: return [].
ChunkEmpty ==
    /\ pc = "start"
    /\ IsBlank(document)
    /\ pc' = "done"
    /\ chunks' = EmptyDocumentResult.chunks
    /\ raised' = EmptyDocumentResult.raised
    /\ last' = Step("empty", RAISE)
    /\ UNCHANGED <<config, doc_i, all_chunks, text, text_chunks, chunk_summary,
                   chunk_index, position, calls, failed, merges, parse_in, parse_out, extractor, aside>>

\* chunk_document in basic mode: _chunk_basic.
ChunkBasicMode ==
    /\ pc = "start"
    /\ ~IsBlank(document)
    /\ ~enable_llm
    /\ pc' = "done"
    /\ chunks' = ChunkBasic(doc_i, document, chunk_size, chunk_overlap)
    /\ last' = Step("basic", RAISE)
    /\ UNCHANGED <<config, doc_i, all_chunks, text, text_chunks, chunk_summary,
                   chunk_index, position, raised, calls, failed, merges,
                   parse_in, parse_out, extractor, aside>>

\* chunk_document in LLM mode, up to the loop of _chunk_with_llm: the
\* first-chunk summary request and the first split.
LlmInit ==
    /\ pc = "start"
    /\ ~IsBlank(document)
    /\ enable_llm
    /\ calls < MaxCalls
    /\ \E reply \in SummaryReplies :
          LET stripped == Strip(document)
              first == GenerateFirstChunkSummary(stripped, chunk_size, chunk_overlap, reply)
              segs == split_text(stripped, chunk_size, chunk_overlap)
          IN  /\ text' = stripped
              /\ chunk_summary' = first.summary
              /\ text_chunks' = segs
              /\ chunk_index' = 0
              /\ position' = 0
              /\ chunks' = <<>>
              /\ calls' = IF first.called THEN calls + 1 ELSE calls
              /\ failed' = IF first.called /\ reply.raised THEN failed \cup {"first"} ELSE failed
              /\ raised' = first.raised
              /\ pc' = IF first.raised \/ segs = <<>> THEN "done" ELSE "loop"
              /\ last' = Step("init", reply)
    /\ UNCHANGED <<config, doc_i, all_chunks, merges, parse_in, parse_out, extractor, aside>>

\* One iteration of the loop with a single candidate segment left: the final
\* summary request, the last chunk, break.
LlmTerminal ==
    /\ pc = "loop"
    /\ Len(text_chunks) = 1
    /\ calls < MaxCalls
    /\ \E reply \in SummaryReplies :
          LET final == GenerateLastChunkSummary(chunk_summary, reply)
          IN  /\ chunk_summary' = final.summary
              /\ chunks' = IF final.raised THEN chunks
                           ELSE Append(chunks, NewChunk(doc_i, text_chunks[1], final.summary,
                                                        chunk_index, position, TRUE))
              /\ calls' = calls + 1
              /\ failed' = IF reply.raised THEN failed \cup {"final"} ELSE failed
              /\ raised' = final.raised
              /\ last' = Step("terminal", reply)
    /\ pc' = "done"
    /\ UNCHANGED <<config, doc_i, all_chunks, text, text_chunks, chunk_index, position,
                   merges, parse_in, parse_out, extractor, aside>>

\* One iteration of the loop with two or more candidate segments: the
\* resplit request, then either the degenerate merge or a chunk and a new
\* split of what is left.
LlmRefine ==
    /\ pc = "loop"
    /\ Len(text_chunks) >= 2
    /\ calls < MaxCalls
    /\ \E reply \in ResplitReplies :
          LET result == ResplitAndGenerateSummary(text, text_chunks, chunk_summary, reply)
              parsed == ~reply.raised /\
                        ParseResplitResponse(reply.body,
                            Take(text, Len(text_chunks[1]) + Len(text_chunks[2]))).ok
              rest == Strip(Drop(text, result.dropped_len))
              segs == split_text(rest, chunk_size, chunk_overlap)
          IN  /\ calls' = calls + 1
              /\ failed' = IF parsed THEN failed ELSE failed \cup {"resplit"}
              /\ raised' = result.raised
              /\ IF result.raised
                 THEN /\ pc' = "done"
                      /\ last' = Step("raised", reply)
                      /\ UNCHANGED <<text, text_chunks, chunk_summary, chunk_index,
                                     position, chunks, merges>>
                 ELSE IF IsBlank(result.new_chunk)
                 THEN /\ chunk_summary' = result.next_summary
                      /\ text_chunks' = MergeFirstTwo(text_chunks)
                      /\ merges' = merges + 1
                      /\ pc' = "loop"
                      /\ last' = Step("merge", reply)
                      /\ UNCHANGED <<text, chunk_index, position, chunks>>
                 ELSE /\ chunks' = Append(chunks, NewChunk(doc_i, result.new_chunk,
                                              result.new_summary, chunk_index, position, TRUE))
                      /\ chunk_index' = NextChunkIndex(chunk_index)
                      /\ merges' = merges
                      /\ position' = position + result.dropped_len
                      /\ text' = rest
                      /\ chunk_summary' = result.next_summary
                      /\ text_chunks' = segs
                      /\ pc' = IF segs = <<>> THEN "done" ELSE "loop"
                      /\ last' = Step(IF parsed THEN "refined" ELSE "fallback", reply)
    /\ UNCHANGED <<config, doc_i, all_chunks, parse_in, parse_out, extractor, aside>>

\* chunk_documents: the loop body after chunk_document came back (extend, or
\* the except branch), and the step to the next document.
BatchNext ==
    /\ pc = "done"
    /\ all_chunks' = IF raised THEN all_chunks ELSE all_chunks \o chunks
    /\ IF doc_i < Len(documents)
       THEN /\ doc_i' = doc_i + 1
            /\ pc' = "start"
       ELSE /\ doc_i' = doc_i
            /\ pc' = "finished"
    /\ text' = <<>>
    /\ text_chunks' = <<>>
    /\ chunk_summary' = <<>>
    /\ chunk_index' = 0
    /\ position' = 0
    /\ chunks' = <<>>
    /\ raised' = FALSE
    /\ calls' = 0
    /\ failed' = {}
    /\ merges' = 0
    /\ last' = NoStep
    /\ UNCHANGED <<config, parse_in, parse_out, extractor, aside>>

Next ==
    \/ ChunkDocuments
    \/ ChunkEmpty
    \/ ChunkBasicMode
    \/ LlmInit
    \/ LlmTerminal
    \/ LlmRefine
    \/ BatchNext

Spec == Init /\ [][Next]_vars

\* ------------------------------------------- the tag-grammar parser alone

\* Elements a resplit response is made of.
ParseElements ==
    {FreeText,
     EndlineTag(<<"0">>), EndlineTag(<<"2">>), EndlineTag(<<"1", "0">>), EndlineTag(<<"x">>),
     SummaryTag(<<"p">>), SummaryTag(<<" ", "q">>)}

ParseResponses == UNION {[1..k -> ParseElements] : k \in 0..MaxResponseLen}

\* Texts handed to the parser as original_text.
ParseTexts == UNION {[1..k -> {"a", "\n"}] : k \in 0..MaxParseTextLen}

ParseInit ==
    /\ chunk_size = 2
    /\ chunk_overlap = 0
    /\ enable_llm = TRUE
    /\ documents = <<>>
    /\ pc = "parse"
    /\ Idle
    /\ parse_in \in ParseResponses \X ParseTexts
    /\ parse_out = NoParse
    /\ num_parallel = 1
    /\ max_atoms_per_chunk = 1
    /\ ExtractorIdle
    /\ Constructed

\* One call of _parse_resplit_response(response, original_text).
ParseCall ==
    /\ pc = "parse"
    /\ parse_out' = ParseResplitResponse(parse_in[1], parse_in[2])
    /\ pc' = "parsed"
    /\ UNCHANGED <<config, doc_i, all_chunks, text, text_chunks, chunk_summary,
                   chunk_index, position, chunks, raised, calls, failed, merges,
                   last, parse_in, extractor, aside>>

ParseSpec == ParseInit /\ [][ParseCall]_vars

\* ------------------------------------------------------ the atom extractor

\* The variables of the chunker.
chunker == <<config, doc_i, all_chunks, text, text_chunks, chunk_summary, chunk_index,
             position, chunks, raised, calls, failed, merges, last, parse_in, parse_out>>

\* The chunker, not in use.
ChunkerIdle ==
    /\ chunk_size = 2
    /\ chunk_overlap = 0
    /\ enable_llm = FALSE
    /\ documents = <<>>
    /\ Idle
    /\ parse_in = <<>>
    /\ parse_out = NoParse

\* A chunk's extract_atoms call that has not begun.
PendingTask ==
    [state |-> "pending", reply |-> RAISE, parsed |-> ParseFailure, atoms |-> <<>>,
     failed |-> FALSE, raised |-> FALSE]

\* A chunk's extract_atoms call waiting for generate_content to come back.
CallingTask ==
    [state |-> "calling", reply |-> RAISE, parsed |-> ParseFailure, atoms |-> <<>>,
     failed |-> FALSE, raised |-> FALSE]

\* A chunk's extract_atoms call that is over.
FinishedTask(state, reply, result) ==
    [state |-> state, reply |-> reply, parsed |-> result.parsed, atoms |-> result.atoms,
     failed |-> result.failed, raised |-> result.raised]

\* The chunks whose generation call is outstanding.
Busy == {i \in 1..Len(tasks) : tasks[i].state = "calling"}

\* The chunks the batch is through with.
Collected == {i \in 1..Len(tasks) : tasks[i].state = "collected"}

\* The chunk the loop of _single_thread_extract is at.
Current == IterationOrder(Len(in_chunks))[Cardinality(Collected) + 1]

\* The batch's all_atoms after the try block around a chunk's result.
Gathered(result) ==
    IF result.raised THEN all_atoms ELSE Extended(all_atoms, result.atoms)

ExtractInit ==
    /\ pc = "ready"
    /\ ChunkerIdle
    /\ num_parallel \in 1..MaxParallel
    /\ max_atoms_per_chunk \in 1..MaxAtoms
    /\ ExtractorIdle
    /\ Constructed

\* extract_atoms_batch(chunks) is called: an empty list returns at once, a
\* single-thread extractor enters its loop, any other submits every chunk to
\* the pool.
ExtractAtomsBatch ==
    /\ pc = "ready"
    /\ \E kinds \in ChunkBatches :
          /\ in_chunks' = [i \in 1..Len(kinds) |-> InputChunk(i, kinds[i])]
          /\ tasks' = [i \in 1..Len(kinds) |-> PendingTask]
          /\ pc' = IF kinds = <<>> THEN "returned"
                   ELSE IF num_parallel = 1 THEN "single" ELSE "pool"
    /\ UNCHANGED <<chunker, aside, num_parallel, max_atoms_per_chunk, all_atoms, started,
                   list_in, list_out>>

\* _single_thread_extract: an iteration begins.  extract_atoms returns [] at
\* once for a blank chunk, and issues the generation call for any other.
SingleStart ==
    /\ pc = "single"
    /\ tasks[Current].state = "pending"
    /\ IF NeedsGeneration(in_chunks[Current])
       THEN /\ tasks' = [tasks EXCEPT ![Current] = CallingTask]
            /\ started' = Append(started, Current)
            /\ UNCHANGED <<all_atoms, pc>>
       ELSE LET result == ExtractAtoms(in_chunks[Current], max_atoms_per_chunk, RAISE)
            IN  /\ tasks' = [tasks EXCEPT ![Current] = FinishedTask("collected", RAISE, result)]
                /\ all_atoms' = Gathered(result)
                /\ pc' = IF Cardinality(Collected) + 1 = Len(in_chunks)
                         THEN "returned" ELSE "single"
                /\ UNCHANGED started
    /\ UNCHANGED <<chunker, aside, num_parallel, max_atoms_per_chunk, in_chunks, list_in, list_out>>

\* _single_thread_extract: the generation call comes back, extract_atoms
\* finishes, the loop extends all_atoms and goes on or returns.
SingleReturn ==
    /\ pc = "single"
    /\ tasks[Current].state = "calling"
    /\ \E reply \in ExtractionReplies :
          LET result == ExtractAtoms(in_chunks[Current], max_atoms_per_chunk, reply)
          IN  /\ tasks' = [tasks EXCEPT ![Current] = FinishedTask("collected", reply, result)]
              /\ all_atoms' = Gathered(result)
    /\ pc' = IF Cardinality(Collected) + 1 = Len(in_chunks) THEN "returned" ELSE "single"
    /\ UNCHANGED <<chunker, aside, num_parallel, max_atoms_per_chunk, in_chunks, started,
                   list_in, list_out>>

\* _multi_thread_extract: a worker that is not busy takes the oldest queued
\* task.  extract_atoms returns [] at once for a blank chunk, and issues the
\* generation call for any other.
PoolStart ==
    /\ pc = "pool"
    /\ PoolHasIdleWorker(Cardinality(Busy), num_parallel)
    /\ \E i \in 1..Len(tasks) :
          /\ tasks[i].state = "pending"
          /\ \A j \in 1..(i - 1) : tasks[j].state # "pending"
          /\ IF NeedsGeneration(in_chunks[i])
             THEN /\ tasks' = [tasks EXCEPT ![i] = CallingTask]
                  /\ started' = Append(started, i)
             ELSE /\ tasks' = [tasks EXCEPT ![i] =
                                  FinishedTask("done", RAISE,
                                      ExtractAtoms(in_chunks[i], max_atoms_per_chunk, RAISE))]
                  /\ UNCHANGED started
    /\ UNCHANGED <<chunker, aside, pc, num_parallel, max_atoms_per_chunk, in_chunks, all_atoms,
                   list_in, list_out>>

\* _multi_thread_extract: an outstanding generation call comes back and its
\* extract_atoms finishes; the future is done.
PoolReturn ==
    /\ pc = "pool"
    /\ \E i \in Busy : \E reply \in ExtractionReplies :
          tasks' = [tasks EXCEPT ![i] =
                       FinishedTask("done", reply,
                           ExtractAtoms(in_chunks[i], max_atoms_per_chunk, reply))]
    /\ UNCHANGED <<chunker, aside, pc, num_parallel, max_atoms_per_chunk, in_chunks, all_atoms,
                   started, list_in, list_out>>

\* _multi_thread_extract: as_completed yields a finished future, the loop
\* extends all_atoms with its result; after the last one the pool is left and
\* all_atoms returned.
PoolCollect ==
    /\ pc = "pool"
    /\ \E i \in 1..Len(tasks) :
          /\ tasks[i].state = "done"
          /\ tasks' = [tasks EXCEPT ![i].state = "collected"]
          /\ all_atoms' = Gathered(tasks[i])
    /\ pc' = IF Cardinality(Collected) + 1 = Len(in_chunks) THEN "returned" ELSE "pool"
    /\ UNCHANGED <<chunker, aside, num_parallel, max_atoms_per_chunk, in_chunks, started,
                   list_in, list_out>>

ExtractNext ==
    \/ ExtractAtomsBatch
    \/ SingleStart
    \/ SingleReturn
    \/ PoolStart
    \/ PoolReturn
    \/ PoolCollect

ExtractSpec == ExtractInit /\ [][ExtractNext]_vars

\* ------------------------------------------------------- the two engines

\* Either engine, as constructed: a chunker in LLM mode or an extractor.
EnginesInit == (Init /\ enable_llm) \/ ExtractInit

\* The steps that issue generation calls: a chunker's, up to the return of
\* chunk_document, and an extractor's batch.

EnginesNext ==
    \/ ChunkDocuments
    \/ ChunkEmpty
    \/ LlmInit
    \/ LlmTerminal
    \/ LlmRefine
    \/ ExtractNext

EnginesSpec == EnginesInit /\ [][EnginesNext]_vars

\* ---------------------------------------- the extraction parser alone

ListInit ==
    /\ pc = "list"
    /\ ChunkerIdle
    /\ num_parallel = 1
    /\ max_atoms_per_chunk = 1
    /\ in_chunks = <<>>
    /\ tasks = <<>>
    /\ all_atoms = <<>>
    /\ started = <<>>
    /\ list_in \in ListResponses
    /\ list_out = ParseFailure
    /\ Constructed

\* One call of _parse_response(response).
ListCall ==
    /\ pc = "list"
    /\ list_out' = ParseResponse(list_in)
    /\ pc' = "listed"
    /\ UNCHANGED <<chunker, aside, num_parallel, max_atoms_per_chunk, in_chunks, tasks,
                   all_atoms, started, list_in>>

\* One call of extract_atoms(chunk) on a chunk with content, whose
\* generation call answers with the response.
ListExtract ==
    /\ pc = "list"
    /\ LET chunk == InputChunk(1, TitledChunk)
           reply == Reply(list_in)
       IN  /\ in_chunks' = <<chunk>>
           /\ started' = <<1>>
           /\ tasks' = <<FinishedTask("done", reply,
                             ExtractAtoms(chunk, max_atoms_per_chunk, reply))>>
    /\ pc' = "extracted"
    /\ UNCHANGED <<chunker, aside, num_parallel, max_atoms_per_chunk, all_atoms,
                   list_in, list_out>>

ListNext ==
    \/ ListCall
    \/ ListExtract

ListSpec == ListInit /\ [][ListNext]_vars



\* ------------------------------------------- chunk_document calls side by side

\* Documents of the calls that run side by side.
ConcurrentDocs == {<<"a", "a", "a">>, <<"a", " ", "a">>, <<" ">>}

\* The locals of a chunk_document call in LLM mode that has not begun, and
\* the replies its requests got.
NewRun(document_id, content) ==
    [document_id |-> document_id, document |-> content, pc |-> "start", text |-> <<>>,
     text_chunks |-> <<>>, chunk_summary |-> <<>>, chunk_index |-> 0, position |-> 0,
     chunks |-> <<>>, raised |-> FALSE, replies |-> <<>>]

\* chunk_document up to the loop of _chunk_with_llm, on the call's locals.
RunInit(run, cs, co, reply) ==
    IF IsBlank(run.document)
    THEN [run EXCEPT !.pc = "done", !.chunks = EmptyDocumentResult.chunks,
                     !.raised = EmptyDocumentResult.raised]
    ELSE LET stripped == Strip(run.document)
             first == GenerateFirstChunkSummary(stripped, cs, co, reply)
             segs == split_text(stripped, cs, co)
         IN  [run EXCEPT !.text = stripped,
                         !.chunk_summary = first.summary,
                         !.text_chunks = segs,
                         !.raised = first.raised,
                         !.pc = IF first.raised \/ segs = <<>> THEN "done" ELSE "loop",
                         !.replies = Append(@, reply)]

\* The iteration with a single candidate, on the call's locals.
RunTerminal(run, reply) ==
    LET final == GenerateLastChunkSummary(run.chunk_summary, reply)
    IN  [run EXCEPT !.chunk_summary = final.summary,
                    !.chunks = IF final.raised THEN @
                               ELSE Append(@, NewChunk(run.document_id, run.text_chunks[1],
                                                       final.summary, run.chunk_index,
                                                       run.position, TRUE)),
                    !.raised = final.raised,
                    !.pc = "done",
                    !.replies = Append(@, reply)]

\* The iteration with two or more candidates, on the call's locals.
RunRefine(run, cs, co, reply) ==
    LET result == ResplitAndGenerateSummary(run.text, run.text_chunks, run.chunk_summary, reply)
        rest == Strip(Drop(run.text, result.dropped_len))
        segs == split_text(rest, cs, co)
    IN  IF result.raised
        THEN [run EXCEPT !.raised = TRUE, !.pc = "done", !.replies = Append(@, reply)]
        ELSE IF IsBlank(result.new_chunk)
        THEN [run EXCEPT !.chunk_summary = result.next_summary,
                         !.text_chunks = MergeFirstTwo(@),
                         !.replies = Append(@, reply)]
        ELSE [run EXCEPT !.chunks = Append(@, NewChunk(run.document_id, result.new_chunk,
                                                       result.new_summary, run.chunk_index,
                                                       run.position, TRUE)),
                         !.chunk_index = NextChunkIndex(@),
                         !.position = @ + result.dropped_len,
                         !.text = rest,
                         !.chunk_summary = result.next_summary,
                         !.text_chunks = segs,
                         !.pc = IF segs = <<>> THEN "done" ELSE "loop",
                         !.replies = Append(@, reply)]

\* The next step of a call on the locals it is given.
StepOf(run, cs, co, reply) ==
    IF run.pc = "start" THEN RunInit(run, cs, co, reply)
    ELSE IF Len(run.text_chunks) = 1 THEN RunTerminal(run, reply)
    ELSE RunRefine(run, cs, co, reply)

\* Variant: the cursor is a field of the chunker, which the calls share.
RunStepSharedCursor(all, r, cs, co, reply) ==
    StepOf([all[r] EXCEPT !.position = Max({all[k].position : k \in 1..Len(all)})],
           cs, co, reply)

\* The next step of call r among the calls in progress: it works on its own
\* locals.
RunStep(all, r, cs, co, reply) == StepOf(all[r], cs, co, reply)

\* The replies the pending request of a call can get.
RepliesFor(run) ==
    IF run.pc = "start" \/ Len(run.text_chunks) = 1 THEN SummaryReplies ELSE ResplitReplies

ConcurrentInit ==
    /\ pc = "concurrent"
    /\ \E c \in Configs : chunk_size = c[1] /\ chunk_overlap = c[2]
    /\ enable_llm = TRUE
    /\ documents = <<>>
    /\ Idle
    /\ parse_in = <<>>
    /\ parse_out = NoParse
    /\ num_parallel = 1
    /\ max_atoms_per_chunk = 1
    /\ ExtractorIdle
    /\ requested = NoRequest
    /\ \E d1 \in ConcurrentDocs, d2 \in ConcurrentDocs :
          runs = <<NewRun(1, d1), NewRun(2, d2)>>

\* One of the calls takes its first step.
RunStarts ==
    /\ \E r \in 1..Len(runs) :
          /\ runs[r].pc = "start"
          /\ \E reply \in RepliesFor(runs[r]) :
                runs' = [runs EXCEPT ![r] = RunStep(runs, r, chunk_size, chunk_overlap, reply)]
    /\ UNCHANGED <<chunker, extractor, pc, requested>>

\* One of the calls takes an iteration of its loop.
RunIterates ==
    /\ \E r \in 1..Len(runs) :
          /\ runs[r].pc = "loop"
          /\ \E reply \in RepliesFor(runs[r]) :
                runs' = [runs EXCEPT ![r] = RunStep(runs, r, chunk_size, chunk_overlap, reply)]
    /\ UNCHANGED <<chunker, extractor, pc, requested>>

ConcurrentNext == RunStarts \/ RunIterates

ConcurrentSpec == ConcurrentInit /\ [][ConcurrentNext]_vars

\* ------------------------------------------------------------ construction

ConstructInit ==
    /\ pc = "new"
    /\ requested \in Requests
    /\ runs = <<>>
    /\ chunk_size = 0
    /\ chunk_overlap = 0
    /\ enable_llm = FALSE
    /\ documents = <<>>
    /\ Idle
    /\ parse_in = <<>>
    /\ parse_out = NoParse
    /\ num_parallel = 1
    /\ max_atoms_per_chunk = 1
    /\ ExtractorIdle

\* The constructor runs: it sets the fields, and either raises ValueError or
\* returns the chunker.
Construct ==
    /\ pc = "new"
    /\ LET made == IF requested.class = "DocumentChunker"
                   THEN NewDocumentChunker(requested)
                   ELSE NewSimpleChunker(requested)
       IN  /\ chunk_size' = made.chunk_size
           /\ chunk_overlap' = made.chunk_overlap
           /\ enable_llm' = made.enable_llm
           /\ pc' = IF made.raised THEN "rejected" ELSE "constructed"
    /\ UNCHANGED <<documents, doc_i, all_chunks, text, text_chunks, chunk_summary,
                   chunk_index, position, chunks, raised, calls, failed, merges, last,
                   parse_in, parse_out, extractor, aside>>

\* chunk_document(document) of the chunker just built, in basic mode: [] for a
\* blank document, _chunk_basic with the chunker's separators otherwise.
ChunkScenario ==
    /\ pc = "constructed"
    /\ ~enable_llm
    /\ \E d \in ScenarioDocuments :
          /\ documents' = <<d>>
          /\ chunks' = IF IsBlank(d) THEN EmptyDocumentResult.chunks
                       ELSE ChunkBasicWith(1, d, SeparatorsOrDefault(requested.separators),
                                           chunk_size, chunk_overlap)
    /\ pc' = "chunked"
    /\ UNCHANGED <<chunk_size, chunk_overlap, enable_llm, doc_i, all_chunks, text,
                   text_chunks, chunk_summary, chunk_index, position, raised, calls,
                   failed, merges, last, parse_in, parse_out, extractor, aside>>

ConstructNext == Construct \/ ChunkScenario

ConstructSpec == ConstructInit /\ [][ConstructNext]_vars

\* ------------------------------------------------------------------ claims

\* A run of chunk_document in LLM mode on a non-blank document.
LlmRun == enable_llm /\ doc_i <= Len(documents) /\ ~IsBlank(document)

\* The last step was an iteration of the loop with two or more candidates.
LastWasRefine == last.kind \in {"refined", "fallback", "merge", "raised"}

\* The loop's variant, ordered lexicographically: the length of the
\* remaining text, then the number of candidate segments.
VariantDecreases ==
    \/ Len(text') < Len(text)
    \/ Len(text') = Len(text) /\ Len(text_chunks') < Len(text_chunks)

\* C1: in LLM mode, whatever the generation capability does on each call,
\* the loop of _chunk_with_llm is left after finitely many iterations and
\* chunk_document returns its chunk list: inside the loop an iteration can
\* always be taken, and each one either returns the chunk list or stays in
\* the loop with a strictly smaller variant.
C1_LlmRunHalts ==
    /\ [](pc = "loop" => (text_chunks # <<>> /\ calls < MaxCalls))
    /\ [][pc = "loop" =>
            \/ pc' = "done" /\ ~raised'
            \/ pc' = "loop" /\ VariantDecreases]_vars

\* A finished LLM run that saw every kind of request fail and merged.
C1_Witness ==
    /\ pc = "done"
    /\ LlmRun
    /\ failed = {"first", "resplit", "final"}
    /\ merges >= 1
    /\ Len(chunks) >= 2

\* C2: the chunks of one document carry the indices 0, 1, ..., N-1 in list
\* order, in either mode and per document of a batch, and a degenerate merge
\* consumes no index.
C2_IndicesContiguous ==
    /\ \A i \in 1..Len(chunks) : chunks[i].index = i - 1
    /\ pc = "loop" => chunk_index = Len(chunks)
    /\ last.kind = "merge" => chunk_index = last.chunk_index
    /\ \A d \in 1..Len(documents) :
          LET own == SelectSeq(all_chunks, LAMBDA c : c.document_id = d)
          IN  \A i \in 1..Len(own) : own[i].index = i - 1

\* An LLM run that returned several chunks after a degenerate merge.
C2_Witness ==
    /\ pc = "done"
    /\ LlmRun
    /\ merges >= 1
    /\ Len(chunks) >= 3

\* C3: in the chunk list of one document start_index never decreases.
C3_StartIndexMonotone ==
    \A i \in 1..(Len(chunks) - 1) : chunks[i].start_index <= chunks[i + 1].start_index

ChunkSizesAgree(c) ==
    /\ c.end_index - c.start_index = c.char_count
    /\ c.char_count = Len(c.content)

\* C4: every chunk chunk_document produces, on each path of each mode, has
\* end_index - start_index = char_count and char_count = len(content).
C4_ChunkSizes ==
    /\ \A i \in 1..Len(chunks) : ChunkSizesAgree(chunks[i])
    /\ \A i \in 1..Len(all_chunks) : ChunkSizesAgree(all_chunks[i])

\* An LLM run that returned a refined chunk with trailing whitespace, a
\* fallback chunk and the terminal chunk.
C4_Witness ==
    /\ pc = "done"
    /\ LlmRun
    /\ last.kind = "terminal"
    /\ "resplit" \in failed
    /\ \E i \in 1..Len(chunks) :
          chunks[i].summary = <<"p">> /\ Strip(chunks[i].content) # chunks[i].content

\* Python's s[a:b] for 0 <= a <= b.
Slice(s, a, b) == Take(Drop(s, a), b - a)

\* C5: start_index and end_index are offsets into the document's content:
\* every chunk's content is document.content[start_index:end_index].
C5_OffsetsIntoDocument ==
    pc = "done" =>
        \A i \in 1..Len(chunks) :
            /\ 0 <= chunks[i].start_index
            /\ chunks[i].start_index <= chunks[i].end_index
            /\ chunks[i].content = Slice(document, chunks[i].start_index, chunks[i].end_index)

\* The reply of a resplit request cannot be used: the call raised, or the
\* response has no <endline>digits</endline> or fewer than two summaries.
ResplitReplyUnusable(reply) ==
    \/ reply.raised
    \/ \A i \in 1..Len(reply.body) :
          ~(reply.body[i].tag = "endline" /\ reply.body[i].body # <<>>
            /\ \A k \in 1..Len(reply.body[i].body) : reply.body[i].body[k] \in Digits)
    \/ Cardinality({i \in 1..Len(reply.body) : reply.body[i].tag = "summary"}) < 2

\* C6: a REFINE iteration whose reply cannot be used emits the unrefined
\* first candidate with the previous running summary, keeps the running
\* summary, and advances the cursor by that candidate's length.
C6_FallbackStep ==
    (LastWasRefine /\ ResplitReplyUnusable(last.reply)) =>
        /\ Len(chunks) = last.chunk_index + 1
        /\ chunks[Len(chunks)].content = last.text_chunks[1]
        /\ chunks[Len(chunks)].summary = last.chunk_summary
        /\ chunk_summary = last.chunk_summary
        /\ position = last.position + Len(last.text_chunks[1])
        /\ text = Strip(Drop(last.text, Len(last.text_chunks[1])))

\* A fallback taken on an unparseable response (not a raise), after a merge,
\* with a running summary to keep.
C6_Witness ==
    /\ LastWasRefine
    /\ ResplitReplyUnusable(last.reply)
    /\ ~last.reply.raised
    /\ last.chunk_summary # <<>>
    /\ merges >= 1
    /\ text # <<>>

\* C7: in LLM mode chunk_document never raises because a generation call
\* failed or a response could not be parsed; it returns a chunk list.
C7_FailuresAbsorbed ==
    /\ ~raised
    /\ (pc = "done" /\ LlmRun /\ failed # {}) => Len(chunks) >= 1

\* A returned LLM run in which all three request kinds failed.
C7_Witness ==
    /\ pc = "done"
    /\ LlmRun
    /\ failed = {"first", "resplit", "final"}
    /\ last.kind = "terminal"

\* Every character of the text is whitespace (the empty text included).
OnlyWhitespace(s) == \A i \in 1..Len(s) : s[i] \in {" ", "\n"}

ChunksOf(d) == SelectSeq(all_chunks, LAMBDA c : c.document_id = d)

EndlineMatches == {i \in 1..Len(parse_in[1]) : IsEndlineMatch(parse_in[1][i])}
SummaryBlocks == {i \in 1..Len(parse_in[1]) : parse_in[1][i].tag = "summary"}

\* C9 as stated: the parser accepts a response if and only if it holds
\* exactly one <endline>integer</endline> and at least two summary blocks.
C9_ExactlyOneEndline ==
    pc = "parsed" =>
        (parse_out.ok <=> (Cardinality(EndlineMatches) = 1 /\ Cardinality(SummaryBlocks) >= 2))

\* C9 amended: the parser accepts a response if and only if it holds at
\* least one <endline>integer</endline> and at least two summary blocks;
\* of several end lines it uses the first, and the first two summaries.
C9_AtLeastOneEndline ==
    pc = "parsed" =>
        /\ parse_out.ok <=> (EndlineMatches # {} /\ Cardinality(SummaryBlocks) >= 2)
        /\ parse_out.ok =>
              LET n == IntOf(parse_in[1][Min(EndlineMatches)].body)
                  lines == ReSplit(parse_in[2], <<"\n">>)
              IN  /\ parse_out.first_part = Join(Take(lines, n), <<"\n">>)
                  /\ parse_out.first_summary = Strip(parse_in[1][Min(SummaryBlocks)].body)
                  /\ parse_out.second_summary =
                        Strip(parse_in[1][Min(SummaryBlocks \ {Min(SummaryBlocks)})].body)

\* An accepted response with two different end lines, the first one used.
C9_Witness ==
    /\ pc = "parsed"
    /\ parse_out.ok
    /\ Cardinality(EndlineMatches) = 2
    /\ parse_out.first_part # parse_in[2]
    /\ parse_in[1][Min(EndlineMatches)].body # parse_in[1][Max(EndlineMatches)].body

\* Number of lines of the text handed to the parser: 1 + its line breaks.
LineCount == 1 + Cardinality({i \in 1..Len(parse_in[2]) : parse_in[2][i] = "\n"})

\* C10: a reported end line past the line count of the text does not fail:
\* part 1 is the whole text and the split position its full length.
C10_EndlineClamped ==
    (/\ pc = "parsed"
     /\ EndlineMatches # {}
     /\ Cardinality(SummaryBlocks) >= 2
     /\ IntOf(parse_in[1][Min(EndlineMatches)].body) > LineCount) =>
        /\ parse_out.ok
        /\ parse_out.first_part = parse_in[2]
        /\ parse_out.split_position = Len(parse_in[2])

\* An end line of 10 reported for a text of three lines.
C10_Witness ==
    /\ pc = "parsed"
    /\ parse_out.ok
    /\ IntOf(parse_in[1][Min(EndlineMatches)].body) = 10
    /\ LineCount = 3
    /\ parse_out.split_position = 3

\* The response handed to _parse_response, decoded as a whole.
WholeDecoded == JsonLoads(Strip(list_in))

\* The first top-level bracketed array of the response: the JSON array that
\* begins at the first "[" and runs to the bracket that closes it.
FirstArray ==
    LET opens == {i \in 1..Len(list_in) : list_in[i] = "["}
    IN  IF opens = {} THEN JsonFail ELSE ParseValue(list_in, Min(opens))

\* C11: _parse_response returns the elements of the array when the whole
\* response is a JSON array; when decoding the whole response fails it
\* returns the elements of the first top-level bracketed array of the
\* response; it raises only when there is no such array either.
C11_ListGrammar ==
    pc = "listed" =>
        /\ (WholeDecoded.ok /\ WholeDecoded.val.t = "arr") =>
              list_out.ok /\ list_out.questions = Questions(WholeDecoded.val.v)
        /\ (~WholeDecoded.ok /\ FirstArray.ok) =>
              list_out.ok /\ list_out.questions = Questions(FirstArray.val.v)
        /\ (~WholeDecoded.ok /\ ~list_out.ok) => ~FirstArray.ok

\* The array the questions are to come from: the whole response when it
\* decodes, the first top-level bracketed array otherwise.
Payload == IF WholeDecoded.ok THEN WholeDecoded.val ELSE FirstArray.val

\* The string elements of the payload array.
PayloadStrings ==
    {Payload.v[i].v : i \in {k \in 1..Len(Payload.v) : Payload.v[k].t = "str"}}

\* C12: every question _parse_response returns is a string element of the
\* JSON array payload of the response.
C12_NoFabricatedQuestion ==
    (pc = "listed" /\ list_out.ok) =>
        \A k \in 1..Len(list_out.questions) : list_out.questions[k] \in PayloadStrings

\* The chunk's extract_atoms call is over.
Finished(i) == tasks[i].state \in {"done", "collected"}

\* The atoms of the batch result that carry the id of chunk i.
AtomsFrom(i) == SelectSeq(all_atoms, LAMBDA a : a.chunk_id = in_chunks[i].id)

\* C13: extract_atoms returns at most max_atoms_per_chunk atoms for every
\* chunk and response, and the batch result never holds more than
\* max_atoms_per_chunk atoms with one chunk_id.
C13_AtomCap ==
    \A i \in 1..Len(tasks) :
        /\ Len(tasks[i].atoms) <= max_atoms_per_chunk
        /\ Len(AtomsFrom(i)) <= max_atoms_per_chunk

\* A returned batch in which a response of three questions was cut to the
\* cap.
C13_Witness ==
    /\ pc = "returned"
    /\ \E i \in 1..Len(tasks) :
          /\ tasks[i].parsed.ok
          /\ Len(tasks[i].parsed.questions) = 3
          /\ Len(AtomsFrom(i)) = max_atoms_per_chunk

\* The questions _parse_response returned for chunk i, for a call that came
\* back with a response that parses.
Returned(i) == tasks[i].parsed.questions

\* The chunk's generation call came back with a response that parses.
Parsed(i) ==
    /\ Finished(i)
    /\ ~OnlyWhitespace(in_chunks[i].content)
    /\ ~tasks[i].reply.raised
    /\ tasks[i].parsed.ok

\* C14 as stated: a response that parses to n questions gives exactly
\* min(n, max_atoms_per_chunk) atoms, whose questions are the first
\* min(n, max_atoms_per_chunk) returned questions in order.
C14_ExactlyFirstN ==
    \A i \in 1..Len(tasks) :
        Parsed(i) =>
            LET m == Min({Len(Returned(i)), max_atoms_per_chunk})
            IN  /\ Len(tasks[i].atoms) = m
                /\ \A k \in 1..m : tasks[i].atoms[k].question = Returned(i)[k]

\* The questions of a list that are not whitespace-only, each stripped.
RECURSIVE StrippedNonBlank(_)
StrippedNonBlank(questions) ==
    IF questions = <<>> THEN <<>>
    ELSE IF OnlyWhitespace(questions[1]) THEN StrippedNonBlank(Tail(questions))
    ELSE <<Strip(questions[1])>> \o StrippedNonBlank(Tail(questions))

\* C14 amended: a response that parses to n questions gives one atom for
\* each of the first min(n, max_atoms_per_chunk) returned questions that is
\* not whitespace-only, in returned order, its question stripped of
\* surrounding whitespace; so at most min(n, max_atoms_per_chunk) atoms.
C14_FirstNNonBlank ==
    \A i \in 1..Len(tasks) :
        Parsed(i) =>
            LET m == Min({Len(Returned(i)), max_atoms_per_chunk})
                kept == StrippedNonBlank(SubSeq(Returned(i), 1, m))
            IN  /\ Len(tasks[i].atoms) = Len(kept)
                /\ Len(tasks[i].atoms) <= m
                /\ \A k \in 1..Len(kept) : tasks[i].atoms[k].question = kept[k]

\* A returned batch with a response cut to its first two questions and a
\* response whose first question, a blank one, used up the cap of one chunk.
C14_Witness ==
    /\ pc = "returned"
    /\ \E i \in 1..Len(tasks) :
          /\ Parsed(i)
          /\ Len(Returned(i)) = 3
          /\ Len(tasks[i].atoms) = 2
          /\ tasks[i].atoms[2].question = Returned(i)[2]
    /\ \E i \in 1..Len(tasks) :
          /\ Parsed(i)
          /\ OnlyWhitespace(Returned(i)[1])
          /\ Len(tasks[i].atoms) = 1
          /\ tasks[i].atoms[1].question # Returned(i)[2]

\* The chunks with content that is not empty or whitespace-only.
NonBlankChunks == {i \in 1..Len(in_chunks) : ~OnlyWhitespace(in_chunks[i].content)}

\* C15: a chunk with empty or whitespace-only content gets an empty atom
\* list and no generation call; a batch issues as many generation calls as
\* it has chunks with non-blank content.
C15_BlankChunkSkipped ==
    /\ \A i \in 1..Len(tasks) :
          OnlyWhitespace(in_chunks[i].content) =>
              /\ tasks[i].state # "calling"
              /\ tasks[i].atoms = <<>>
              /\ \A k \in 1..Len(started) : started[k] # i
    /\ pc = "returned" => Len(started) = Cardinality(NonBlankChunks)

\* A returned pool batch of three chunks with a blank one in the middle.
C15_Witness ==
    /\ pc = "returned"
    /\ num_parallel > 1
    /\ Len(in_chunks) = 3
    /\ NonBlankChunks = {1, 3}
    /\ Len(started) = 2
    /\ all_atoms # <<>>

\* The extraction of chunk i failed: its generation call raised, or came
\* back with a response that does not parse.
ExtractionFailed(i) ==
    /\ Finished(i)
    /\ ~OnlyWhitespace(in_chunks[i].content)
    /\ tasks[i].reply.raised \/ ~tasks[i].parsed.ok

\* C16: a per-chunk extraction that fails contributes no atom and aborts
\* neither its siblings nor the batch: a running batch always has a step to
\* take (the loop's current chunk to begin or finish; in the pool a call to
\* come back, a finished task to collect, or a queued task and an idle
\* worker), and a returned batch has handled every chunk and holds the atoms
\* of exactly the chunks whose extraction succeeded.  For a pool and for one
\* thread.
C16_FailureIsolated ==
    /\ pc = "single" => tasks[Current].state \in {"pending", "calling"}
    /\ pc = "pool" =>
          \E i \in 1..Len(tasks) :
              \/ tasks[i].state \in {"calling", "done"}
              \/ tasks[i].state = "pending" /\ Cardinality(Busy) < num_parallel
    /\ pc = "returned" =>
          \A i \in 1..Len(tasks) :
              /\ tasks[i].state = "collected"
              /\ AtomsFrom(i) = IF ExtractionFailed(i) THEN <<>> ELSE tasks[i].atoms

\* Three chunks, two workers, the generation call of the second chunk
\* raised: the result holds the atoms of the first and the third.
C16_Witness ==
    /\ pc = "returned"
    /\ num_parallel = 2
    /\ Len(in_chunks) = 3
    /\ tasks[2].reply.raised /\ ExtractionFailed(2)
    /\ ~ExtractionFailed(1) /\ ~ExtractionFailed(3)
    /\ AtomsFrom(1) # <<>> /\ AtomsFrom(2) = <<>> /\ AtomsFrom(3) # <<>>

\* C17: with num_parallel = P > 1, at most P generation calls are
\* outstanding at any moment of a batch.
C17_OutstandingCallsBounded ==
    num_parallel > 1 => Cardinality(Busy) <= num_parallel

\* Two workers inside their generation calls while a third chunk waits.
C17_Witness ==
    /\ pc = "pool"
    /\ num_parallel = 2
    /\ Cardinality(Busy) = 2
    /\ \E i \in NonBlankChunks : tasks[i].state = "pending"

\* The (chunk_id, question) pairs of an atom list.
Pairs(atoms) == [k \in 1..Len(atoms) |-> <<atoms[k].chunk_id, atoms[k].question>>]

Count(seq, x) == Cardinality({k \in 1..Len(seq) : seq[k] = x})

\* Two lists hold the same elements the same number of times.
SameMultiset(a, b) ==
    /\ Len(a) = Len(b)
    /\ \A k \in 1..Len(a) : Count(a, a[k]) = Count(b, a[k])

\* The per-chunk results, one after the other in chunk order.
RECURSIVE PerChunkAtoms(_)
PerChunkAtoms(ts) ==
    IF ts = <<>> THEN <<>> ELSE ts[1].atoms \o PerChunkAtoms(Tail(ts))

\* C18: for P > 1 and every completion order, the returned list is, as a
\* multiset of (chunk_id, question) pairs, the union of the per-chunk
\* results, every chunk having been extracted exactly once, and equals the
\* multiset the single-thread run returns for the same chunks and responses.
C18_PoolResultIsUnion ==
    (pc = "returned" /\ num_parallel > 1) =>
        /\ SameMultiset(Pairs(all_atoms), Pairs(PerChunkAtoms(tasks)))
        /\ SameMultiset(Pairs(all_atoms),
               Pairs(SingleThreadResult(in_chunks, [i \in 1..Len(tasks) |-> tasks[i].reply],
                                        max_atoms_per_chunk)))
        /\ \A i \in NonBlankChunks : Count(started, i) = 1

\* A pool batch whose tasks completed out of input order: the result lists
\* the atoms of a later chunk before those of an earlier one.
C18_Witness ==
    /\ pc = "returned"
    /\ num_parallel > 1
    /\ Len(all_atoms) >= 3
    /\ all_atoms # PerChunkAtoms(tasks)
    /\ all_atoms[1].chunk_id > all_atoms[Len(all_atoms)].chunk_id

\* C19: with num_parallel == 1 the generation calls are issued in input
\* order, one at a time, each only after the one before has come back, and
\* the returned list holds each chunk's atoms grouped in input order.
C19_SingleThreadInOrder ==
    num_parallel = 1 =>
        /\ Cardinality(Busy) <= 1
        /\ \A k \in 1..(Len(started) - 1) : started[k] < started[k + 1]
        /\ \A i \in Busy :
              /\ \A j \in 1..(i - 1) : tasks[j].state = "collected"
              /\ \A j \in (i + 1)..Len(tasks) : tasks[j].state = "pending"
        /\ pc = "returned" => all_atoms = PerChunkAtoms(tasks)

\* A single-thread batch of three chunks with content, called in order: the
\* second failed, the others gave atoms.
C19_Witness ==
    /\ pc = "returned"
    /\ num_parallel = 1
    /\ started = <<1, 2, 3>>
    /\ tasks[1].atoms # <<>> /\ tasks[2].atoms = <<>> /\ tasks[3].atoms # <<>>
    /\ Len(all_atoms) >= 3

\* C20: extract_atoms never raises; when its generation call raises or the
\* response does not parse it returns an empty list.
C20_ExtractAtomsNeverRaises ==
    \A i \in 1..Len(tasks) :
        /\ ~tasks[i].raised
        /\ (Finished(i) /\ (tasks[i].reply.raised \/ ~tasks[i].parsed.ok))
              => tasks[i].atoms = <<>>

\* One call that raised and one that came back with text that is not JSON,
\* both finished with an empty list.
C20_Witness ==
    /\ \E i \in NonBlankChunks : Finished(i) /\ tasks[i].reply.raised /\ tasks[i].atoms = <<>>
    /\ \E i \in NonBlankChunks :
          /\ Finished(i)
          /\ ~tasks[i].reply.raised
          /\ tasks[i].reply.body = <<"q">>
          /\ tasks[i].atoms = <<>>

\* C21: every atom, whichever way and in whichever order the batch's calls
\* completed, carries the id of the input chunk whose content produced it
\* and that same chunk's document_id, title and source.
FromChunk(atom, i) ==
    /\ atom.chunk_id = in_chunks[i].id
    /\ atom.document_id = in_chunks[i].document_id
    /\ atom.title = in_chunks[i].title
    /\ atom.source = in_chunks[i].source

C21_AtomProvenance ==
    /\ \A i \in 1..Len(tasks) : \A k \in 1..Len(tasks[i].atoms) :
          FromChunk(tasks[i].atoms[k], i)
    /\ \A k \in 1..Len(all_atoms) : \E i \in 1..Len(in_chunks) :
          /\ FromChunk(all_atoms[k], i)
          /\ tasks[i].state = "collected"
          /\ \E j \in 1..Len(tasks[i].atoms) : tasks[i].atoms[j] = all_atoms[k]

\* A pool batch of two chunks of different documents has returned; the
\* second chunk's call completed first and both chunks gave atoms.
C21_Witness ==
    /\ pc = "returned"
    /\ num_parallel > 1
    /\ Len(in_chunks) = 2
    /\ in_chunks[1].document_id # in_chunks[2].document_id
    /\ in_chunks[1].title # in_chunks[2].title
    /\ tasks[1].atoms # <<>>
    /\ tasks[2].atoms # <<>>
    /\ all_atoms # <<>>
    /\ all_atoms[1].chunk_id = in_chunks[2].id
    /\ all_atoms[Len(all_atoms)].chunk_id = in_chunks[1].id

\* C22: a constructor call succeeds only when the chunker's chunk_overlap is
\* smaller than its chunk_size; with chunk_overlap >= chunk_size, equal
\* values included, it raises ValueError.
C22_OverlapBelowSize ==
    pc \in {"constructed", "chunked"} => chunk_overlap < chunk_size

\* C24: "A. B. C." split on ". " alone by a chunker whose chunk size holds
\* the whole text gives one chunk "A. B. C" with index 0, and the
\* one-sentence document with the default separators gives one chunk, the
\* text without its final full stop.
FitsWhole == pc = "chunked" /\ chunk_size >= Len(documents[1])

SentenceScenario ==
    /\ FitsWhole
    /\ documents[1] = ThreeSentences
    /\ requested.separators = << <<".", " ">> >>

SingleSentenceScenario ==
    /\ FitsWhole
    /\ documents[1] = SingleSentence
    /\ requested.separators = <<>>

OneChunk(content) ==
    /\ Len(chunks) = 1
    /\ chunks[1].content = content
    /\ chunks[1].index = 0

C24_TrailingSeparatorStripped ==
    /\ SentenceScenario => OneChunk(Take(ThreeSentences, Len(ThreeSentences) - 1))
    /\ SingleSentenceScenario => OneChunk(Take(SingleSentence, Len(SingleSentence) - 1))

\* C24, amended: the final "." of "A. B. C." is no occurrence of ". " and
\* stays; the final ideographic full stop is a separator and goes.
C24_OnlySeparatorsStripped ==
    /\ SentenceScenario => OneChunk(ThreeSentences)
    /\ SingleSentenceScenario => OneChunk(Take(SingleSentence, Len(SingleSentence) - 1))

\* The first scenario has run, on a DocumentChunker that took its sizes from
\* the settings, and gave a chunk.
C24_Witness ==
    /\ SentenceScenario
    /\ requested.class = "DocumentChunker"
    /\ requested.chunk_size = None
    /\ chunks # <<>>

\* C23: the default separators end with "", so no chunk of a basic-mode run
\* is longer than chunk_size, whatever the document.
BasicRunDone == ~enable_llm /\ pc = "done" /\ last.kind = "basic"

C23_BasicWithinChunkSize ==
    BasicRunDone => \A i \in 1..Len(chunks) : Len(chunks[i].content) <= chunk_size

\* A document longer than twice the chunk size, with a word longer than the
\* chunk size, came out in three or more chunks, one of them full.
C23_Witness ==
    /\ BasicRunDone
    /\ Len(document) > 2 * chunk_size
    /\ \E i \in 1..(Len(document) - chunk_size) :
          \A j \in i..(i + chunk_size) : ~IsSpace(document[j])
    /\ Len(chunks) >= 3
    /\ \E i \in 1..Len(chunks) : Len(chunks[i].content) = chunk_size

\* C26: a run in LLM mode on a non-blank document returns only from the
\* iteration with a single candidate left, after the final-summary request;
\* it never returns from an iteration that refined.
C26_LeavesThroughTerminal ==
    (LlmRun /\ pc = "done" /\ ~raised) => last.kind = "terminal"

\* The last step was an iteration whose resplit response parsed, with a part
\* 1 that is empty or whitespace-only.
PartOneBlank ==
    /\ LastWasRefine
    /\ ~last.reply.raised
    /\ LET parsed == ParseResplitResponse(last.reply.body,
                         Take(last.text, Len(last.text_chunks[1]) + Len(last.text_chunks[2])))
       IN  parsed.ok /\ IsBlank(parsed.first_part)

\* C27: after an iteration whose part 1 was empty or whitespace-only, the
\* running summary is the one held before that iteration.
C27_MergeKeepsSummary == PartOneBlank => chunk_summary = last.chunk_summary

\* C28: an iteration whose part 1 was empty or whitespace-only emits no
\* chunk, leaves the cursor, the remaining text and the next chunk index as
\* they were, and replaces the first two candidates by their concatenation,
\* the later ones kept in order.
C28_MergeFrame ==
    PartOneBlank =>
        /\ Len(chunks) = last.chunk_index
        /\ position = last.position
        /\ text = last.text
        /\ chunk_index = last.chunk_index
        /\ text_chunks = <<last.text_chunks[1] \o last.text_chunks[2]>>
                             \o SubSeq(last.text_chunks, 3, Len(last.text_chunks))
        /\ pc = "loop"

\* A merge with a third candidate behind the merged pair.
C28_Witness ==
    /\ PartOneBlank
    /\ Len(last.text_chunks) >= 3
    /\ Len(text_chunks) = 2
    /\ text_chunks[2] = last.text_chunks[3]

\* The last step was an iteration with two or more candidates that emitted a
\* chunk.
EmittedNonTerminal == LastWasRefine /\ Len(chunks) = last.chunk_index + 1

\* C29: an iteration that emits a non-terminal chunk, refined or fallback,
\* advances the cursor by at least 1 and leaves less text than it started
\* with.
C29_EmissionConsumes ==
    EmittedNonTerminal =>
        /\ position >= last.position + 1
        /\ Len(text) < Len(last.text)

\* A fallback chunk was emitted after a refined one, and text is left.
C29_Witness ==
    /\ EmittedNonTerminal
    /\ last.kind = "fallback"
    /\ last.position > 0
    /\ text # <<>>

\* The candidates the first split of the run's document gave.
FirstSplit == split_text(Strip(document), chunk_size, chunk_overlap)

\* C30: a merge leaves exactly one candidate less, and at least one; from
\* the k candidates of a split at most k - 1 merges in a row happen, and
\* then the iteration with a single candidate is the one taken.
C30_MergesBounded ==
    /\ PartOneBlank =>
          /\ Len(text_chunks) = Len(last.text_chunks) - 1
          /\ Len(text_chunks) >= 1
    /\ (LlmRun /\ pc = "loop" /\ chunk_index = 0) =>
          /\ merges <= Len(FirstSplit) - 1
          /\ Len(text_chunks) = Len(FirstSplit) - merges
    /\ (LlmRun /\ last.kind = "terminal") => Len(last.text_chunks) = 1

\* Every resplit of a run gave an empty part 1: three candidates, two
\* merges, then the final iteration and a single chunk.
C30_Witness ==
    /\ LlmRun
    /\ pc = "done"
    /\ last.kind = "terminal"
    /\ Len(FirstSplit) = 3
    /\ merges = 2
    /\ Len(chunks) = 1

\* C25: whatever the interleaving of the steps of the calls in progress,
\* each call holds what the same document gives when chunked alone with the
\* same replies: cursor, remaining text, running summary, candidates, chunk
\* index and chunks.
\* A call stepped alone through the replies it got (the call on a blank
\* document issues no request and returns in its first step).
RECURSIVE AloneFrom(_, _, _)
AloneFrom(run, replies, i) ==
    IF run.pc = "done" \/ (i > Len(replies) /\ ~IsBlank(run.document)) THEN run
    ELSE AloneFrom(RunStep(<<run>>, 1, chunk_size, chunk_overlap,
                           IF i > Len(replies) THEN RAISE ELSE replies[i]),
                   replies, i + 1)

Alone(run) == AloneFrom(NewRun(run.document_id, run.document), run.replies, 1)

FirstLines(s, n) ==
    LET breaks == {i \in 1..Len(s) : s[i] = "\n"}
        nth == {k \in breaks : Cardinality({j \in breaks : j <= k}) = n}
    IN  IF nth = {} THEN s ELSE Take(s, Min(nth) - 1)

\* What the last iteration's resplit request was about and what its reply
\* says: the text sent, the end line, the two summaries.
ResplitText == Take(last.text, Len(last.text_chunks[1]) + Len(last.text_chunks[2]))
ReplyEndline ==
    IntOf(last.reply.body[Min({i \in 1..Len(last.reply.body) :
                                 IsEndlineMatch(last.reply.body[i])})].body)
ReplySummary(k) == Strip(SummaryMatches(last.reply.body)[k])

\* The last step was an iteration with a usable reply that chose an end line
\* N >= 1 whose first N lines are not blank.
RefinedAtLine ==
    /\ LastWasRefine
    /\ ~ResplitReplyUnusable(last.reply)
    /\ ReplyEndline >= 1
    /\ ~OnlyWhitespace(FirstLines(ResplitText, ReplyEndline))

\* C31: such an iteration emits the first N lines of the resplit text with
\* the reply's first summary, advances the cursor by the length of that
\* part, and leaves the reply's second summary as the running summary.
C31_RefinedStep ==
    RefinedAtLine =>
        /\ Len(chunks) = last.chunk_index + 1
        /\ chunks[Len(chunks)].content = FirstLines(ResplitText, ReplyEndline)
        /\ chunks[Len(chunks)].summary = ReplySummary(1)
        /\ position = last.position + Len(FirstLines(ResplitText, ReplyEndline))
        /\ chunk_summary = ReplySummary(2)

\* A refined step that cut the resplit text at its first line break and left
\* text behind, with two different summaries.
C31_Witness ==
    /\ RefinedAtLine
    /\ Len(FirstLines(ResplitText, ReplyEndline)) < Len(ResplitText)
    /\ ReplySummary(1) # ReplySummary(2)
    /\ text # <<>>
    /\ pc = "loop"

\* The iterations the loop of _chunk_with_llm has taken in the current run:
\* the merges, the iterations that emitted a non-terminal chunk, and the
\* final one.
Iterations == merges + chunk_index + (IF last.kind = "terminal" THEN 1 ELSE 0)

\* The generation calls a batch has started for chunk i.
CallsFor(i) == Cardinality({k \in 1..Len(started) : started[k] = i})

C33_EmittedIsConsumedPrefix ==
    EmittedNonTerminal =>
        chunks[Len(chunks)].content = Take(last.text, position - last.position)

\* C34: every chunk chunk_document returns, in either mode, has
\* 0 <= start_index < end_index <= len(document.content).
C34_OffsetsWithinDocument ==
    (pc = "done" /\ ~raised) =>
        \A i \in 1..Len(chunks) :
            /\ 0 <= chunks[i].start_index
            /\ chunks[i].start_index < chunks[i].end_index
            /\ chunks[i].end_index <= Len(document)

\* C35: in LLM mode the chunks tile the offsets: the first starts at 0,
\* each next one starts where the one before it ends, and the cursor stands
\* at the end of the last chunk emitted so far.
C35_OffsetsTile ==
    (LlmRun /\ pc \in {"loop", "done"}) =>
        /\ chunks # <<>> => chunks[1].start_index = 0
        /\ \A i \in 1..(Len(chunks) - 1) :
              chunks[i + 1].start_index = chunks[i].end_index
        /\ (pc = "loop" /\ chunks # <<>>) => position = chunks[Len(chunks)].end_index

\* A returned run of three chunks, a fallback and a merge on the way.
C35_Witness ==
    /\ LlmRun
    /\ pc = "done"
    /\ Len(chunks) >= 3
    /\ "resplit" \in failed
    /\ merges >= 1

C37_SummaryFailuresAbsorbed ==
    /\ (LlmRun /\ last.kind = "init" /\ last.reply.raised) =>
          (chunk_summary = <<>> /\ pc = "loop" /\ ~raised /\ text_chunks # <<>>)
    /\ (LlmRun /\ last.kind = "terminal" /\ last.reply.raised) =>
          /\ pc = "done"
          /\ ~raised
          /\ Len(chunks) = last.chunk_index + 1
          /\ chunks[Len(chunks)].content = last.text_chunks[1]
          /\ chunks[Len(chunks)].summary = last.chunk_summary
          /\ chunk_summary = last.chunk_summary

\* The final-summary request failed after the first one had failed too and a
\* refinement had set a running summary.
C37_Witness ==
    /\ LlmRun
    /\ last.kind = "terminal"
    /\ last.reply.raised
    /\ "first" \in failed
    /\ last.chunk_summary # <<>>
    /\ Len(chunks) >= 2

\* The reply of chunk i's generation call decoded as a whole.
ReplyDecoded(i) == JsonLoads(Strip(tasks[i].reply.body))

\* Chunk i's call returned a response that is valid JSON but not an array.
NonArrayReply(i) ==
    /\ Finished(i)
    /\ NeedsGeneration(in_chunks[i])
    /\ ~tasks[i].reply.raised
    /\ ReplyDecoded(i).ok
    /\ ReplyDecoded(i).val.t # "arr"

\* C38: a response that is valid JSON but not an array makes
\* _parse_response fail without the bracket search, an array inside it
\* notwithstanding, and extract_atoms return []; questions come out of the
\* bracket search only when decoding the whole response failed.
C38_NonArrayRejected ==
    /\ (pc = "listed" /\ WholeDecoded.ok) =>
          IF WholeDecoded.val.t = "arr"
          THEN list_out.ok /\ list_out.questions = Questions(WholeDecoded.val.v)
          ELSE ~list_out.ok
    /\ \A i \in 1..Len(tasks) :
          /\ NonArrayReply(i) =>
                (~tasks[i].parsed.ok /\ tasks[i].failed /\ ~tasks[i].raised
                    /\ tasks[i].atoms = <<>>)
          /\ (Finished(i) /\ tasks[i].parsed.ok /\ ReplyDecoded(i).ok) =>
                ReplyDecoded(i).val.t = "arr"

\* extract_atoms came back from a response that is an object holding an
\* array the bracket search would have found.
C38_Witness ==
    /\ pc = "extracted"
    /\ NonArrayReply(1)
    /\ ReplyDecoded(1).val.t = "obj"
    /\ BracketSearch(tasks[1].reply.body).found
    /\ JsonLoads(BracketSearch(tasks[1].reply.body).group).ok
    /\ tasks[1].atoms = <<>>

\* C39: a DocumentChunker uses the chunk_size and chunk_overlap it was
\* passed whenever they were provided, an explicit chunk_overlap of 0
\* included, and the settings' values only for the ones left out.
C39_ExplicitSizesUsed ==
    (pc \in {"constructed", "chunked"} /\ requested.class = "DocumentChunker") =>
        /\ chunk_size = IF requested.chunk_size.given THEN requested.chunk_size.value
                        ELSE requested.settings.chunk_size
        /\ chunk_overlap = IF requested.chunk_overlap.given
                           THEN requested.chunk_overlap.value
                           ELSE requested.settings.chunk_overlap

====
